---- MODULE Spec2Model ----
(***************************************************************************)
(* CloudSecOps-Platform: the scan pipeline (POST /scan -> run_*_scan ->    *)
(* scan_all -> store_vulnerabilities), the status-update route and the     *)
(* open-ingress detectors of the AWS and Azure scanners.                   *)
(*                                                                         *)
(* Spec       the scan orchestrator: background scan tasks and their       *)
(*            cancellation                                                 *)
(* SpecStore  the finding store: background scan tasks and the             *)
(*            status-update route                                          *)
(* SpecSG     AWSScanner.scan_security_groups, bounded listings            *)
(* SpecNSG    AzureScanner.scan_network_security_groups, bounded listings  *)
(* SpecS3         AWSScanner.scan_s3_buckets                               *)
(* SpecSA         AzureScanner.scan_storage_accounts                       *)
(* SpecIAM        AWSScanner.scan_iam_policies                             *)
(* SpecRA         AzureScanner.scan_role_assignments                       *)
(* SpecGD         AWSScanner.fetch_guardduty_findings                      *)
(* SpecLabels     fetch_security_hub_findings and                          *)
(*                fetch_security_center_recommendations                    *)
(* SpecCompliance compliance_routes: the summary routes                    *)
(* SpecQuery      the list queries of aws_routes and compliance_routes     *)
(* SpecAwsAuth    integrations.aws.auth.AWSAuthenticator                   *)
(* SpecAzureAuth  integrations.azure.auth.AzureAuthenticator               *)
(* SpecScanAll    scan_all of both scanners over the detectors, run after  *)
(*                run against the provider's answers                       *)
(***************************************************************************)
EXTENDS Integers, Sequences, FiniteSets, TLC

VARIABLES
    provider,          \* scanner of the background task: "aws" | "azure" | "none"
    pc,                \* position of the background task run_aws_scan / run_azure_scan
    cur,               \* index of the group scan_all is at (1..N+1)
    grp,               \* "ready": group not yet called; "running": its provider calls are in flight
    vulnerabilities,   \* scan_all's local list
    ret,               \* the list scan_all returned to run_*_scan
    store,             \* the finding store (vulnerabilities table)
    nextId,            \* stands for uuid.uuid4(): a fresh id per finding
    scanFirstId,       \* nextId when the running scan was requested: the first id it can issue
    failed,            \* history: groups of this scan whose except-branch ran
    produced,          \* history: findings handed back by the groups that returned normally
    cancelRequested,   \* a cancellation of the running task was requested
    doneAtCancel,      \* history: groups that had completed when the cancellation was requested
    taskError,         \* where an exception that ended the background task came from
    httpCode,          \* status code of the last HTTP response
    sgListing,         \* ec2.describe_security_groups()['SecurityGroups']
    sgResult,          \* what scan_security_groups returned for sgListing
    nsgListing,        \* list(network_client.network_security_groups.list_all())
    nsgResult,         \* what scan_network_security_groups returned for nsgListing
    s3Listing,         \* s3.list_buckets()['Buckets'], with what the per-bucket calls answer
    s3Result,          \* what scan_s3_buckets returned for s3Listing
    saListing,         \* list(storage_client.storage_accounts.list())
    saResult,          \* what scan_storage_accounts returned for saListing
    iamListing,        \* iam.list_policies(Scope='Local')['Policies'], with their default versions
    iamResult,         \* what scan_iam_policies returned for iamListing
    raListing,         \* role definitions and role assignments of the subscription
    raResult,          \* what scan_role_assignments returned for raListing
    hubListing,        \* security_hub.get_findings(...)['Findings']
    hubResult,         \* what fetch_security_hub_findings returned for hubListing
    scListing,         \* list(security_client.assessments.list())
    scResult,          \* what fetch_security_center_recommendations returned for scListing
    gdListing,         \* guardduty.get_findings(...)['Findings'] of the detector
    gdResult,          \* what fetch_guardduty_findings returned for gdListing
    complianceFindings,\* the compliance_findings table
    summary,           \* the response to the last GET /standards/{standard}/summary
    complianceSummary, \* the response to the last GET /summary
    vulnRows,          \* the vulnerabilities table as the query routes read it
    response,          \* the response to the last list query
    awsAuth,           \* the fields of an AWSAuthenticator
    awsCall,           \* the last call on the AWSAuthenticator and how it ended
    azureAuth,         \* the fields of an AzureAuthenticator
    azureCall,         \* the last call on the AzureAuthenticator and how it ended
    apiErrors,         \* the detector groups whose listing call raises at the provider
    runs               \* the scan_all runs so far: scanner, provider responses, findings

pipelineVars == <<provider, pc, cur, grp, vulnerabilities, ret, store, nextId,
                  scanFirstId, failed, produced, cancelRequested, doneAtCancel, taskError, httpCode>>
sgVars == <<sgListing, sgResult>>
nsgVars == <<nsgListing, nsgResult>>
s3Vars == <<s3Listing, s3Result>>
saVars == <<saListing, saResult>>
iamVars == <<iamListing, iamResult>>
raVars == <<raListing, raResult>>
labelVars == <<hubListing, hubResult, scListing, scResult>>
gdVars == <<gdListing, gdResult>>
complianceVars == <<complianceFindings, summary, complianceSummary>>
detectorVars == <<sgVars, nsgVars, s3Vars, saVars, iamVars, raVars, labelVars, gdVars>>
queryVars == <<vulnRows, response>>
awsAuthVars == <<awsAuth, awsCall>>
azureAuthVars == <<azureAuth, azureCall>>
scanAllVars == <<apiErrors, runs>>
serviceVars == <<queryVars, awsAuthVars, azureAuthVars, scanAllVars>>
vars == <<pipelineVars, detectorVars, complianceVars, serviceVars>>

\* What a step of one detector leaves alone: every variable but its own.
exceptSG ==
    <<pipelineVars, nsgVars, s3Vars, saVars, iamVars,
      raVars, labelVars, gdVars, complianceVars, serviceVars>>
exceptNSG ==
    <<pipelineVars, sgVars, s3Vars, saVars, iamVars,
      raVars, labelVars, gdVars, complianceVars, serviceVars>>
exceptS3 ==
    <<pipelineVars, sgVars, nsgVars, saVars, iamVars,
      raVars, labelVars, gdVars, complianceVars, serviceVars>>
exceptSA ==
    <<pipelineVars, sgVars, nsgVars, s3Vars, iamVars,
      raVars, labelVars, gdVars, complianceVars, serviceVars>>
exceptIAM ==
    <<pipelineVars, sgVars, nsgVars, s3Vars, saVars,
      raVars, labelVars, gdVars, complianceVars, serviceVars>>
exceptRA ==
    <<pipelineVars, sgVars, nsgVars, s3Vars, saVars,
      iamVars, labelVars, gdVars, complianceVars, serviceVars>>
exceptLabels ==
    <<pipelineVars, sgVars, nsgVars, s3Vars, saVars,
      iamVars, raVars, gdVars, complianceVars, serviceVars>>
exceptGD ==
    <<pipelineVars, sgVars, nsgVars, s3Vars, saVars,
      iamVars, raVars, labelVars, complianceVars, serviceVars>>
exceptCompliance == <<pipelineVars, detectorVars, serviceVars>>
exceptQuery ==
    <<pipelineVars, detectorVars, complianceVars, awsAuthVars, azureAuthVars, scanAllVars>>
exceptAwsAuth ==
    <<pipelineVars, detectorVars, complianceVars, queryVars, azureAuthVars, scanAllVars>>
exceptAzureAuth ==
    <<pipelineVars, detectorVars, complianceVars, queryVars, awsAuthVars, scanAllVars>>
exceptScanAll ==
    <<pipelineVars, detectorVars, complianceVars, queryVars, awsAuthVars, azureAuthVars,
      apiErrors>>
exceptPipeline == <<detectorVars, complianceVars, serviceVars>>

\* ---------------------------------------------------------------- bounds

MaxPerGroup == 1
MaxFindings == 2

\* ------------------------------------------------------- scan orchestrator

AWSGroups ==
    <<"security_groups", "s3_buckets", "iam_policies", "security_hub", "guardduty">>

AzureGroups ==
    <<"network_security_groups", "storage_accounts", "security_center", "role_assignments">>

Providers == {"aws", "azure"}

Groups(p) == IF p = "aws" THEN AWSGroups ELSE AzureGroups

GroupSet(p) == {Groups(p)[i] : i \in 1..Len(Groups(p))}

GroupIndex(p, g) == CHOOSE i \in 1..Len(Groups(p)) : Groups(p)[i] = g

\* The group has begun its provider calls (it is in flight or has completed).
Started(g) ==
    /\ pc = "scan"
    /\ \/ GroupIndex(provider, g) < cur
       \/ GroupIndex(provider, g) = cur /\ grp = "running"

Completed(g) == pc = "scan" /\ GroupIndex(provider, g) < cur

\* Vulnerability(id=str(uuid.uuid4()), ..., status=VulnerabilityStatus.OPEN, ...)
\* group and batch are history fields: which group of which scan created it.
NewFinding(id, g) ==
    [id |-> id, group |-> g, provider |-> provider, batch |-> scanFirstId,
     status |-> "open"]

NewFindings(n, g) == [k \in 1..n |-> NewFinding(nextId + k - 1, g)]

\* VulnerabilityStatus values (lower-case on output).
VulnerabilityStatus == {"open", "acknowledged", "resolved"}

\* status strings a caller sends
StatusInputs == {"open", "RESOLVED", "closed?"}

\* str.lower() on the strings a caller sends
Lower(s) == IF s = "RESOLVED" THEN "resolved" ELSE s

\* Mutant: storing a batch reopens the findings already in the table.
StoreVulnerabilities_Reopens(table, batch) ==
    [i \in 1..Len(table) |-> [table[i] EXCEPT !.status = "open"]] \o batch

\* VulnerabilityDatabase.store_vulnerabilities: the batch is added to the table.
StoreVulnerabilities(table, batch) == table \o batch

\* VulnerabilityDatabase.update_vulnerability_status: found | notFound
HasVulnerability(table, id) == \E i \in 1..Len(table) : table[i].id = id

\* Mutant: the update sets the status of every stored finding.
SetStatus_All(table, id, st) ==
    [i \in 1..Len(table) |-> [table[i] EXCEPT !.status = st]]

SetStatus(table, id, st) ==
    [i \in 1..Len(table) |->
        IF table[i].id = id THEN [table[i] EXCEPT !.status = st] ELSE table[i]]

\* ids a caller may name: every id a scan can have issued, and one that none has
Ids == 1..(MaxFindings + 1)

PipelineInit ==
    /\ provider = "none"
    /\ pc = "idle"
    /\ cur = 1
    /\ grp = "ready"
    /\ vulnerabilities = <<>>
    /\ ret = <<>>
    /\ store = <<>>
    /\ nextId = 1
    /\ scanFirstId = 1
    /\ failed = {}
    /\ produced = <<>>
    /\ cancelRequested = FALSE
    /\ doneAtCancel = {}
    /\ taskError = "none"
    /\ httpCode = 0

\* The background task is over: its locals (and the history kept about it) are gone.
TaskEnds ==
    /\ pc' = "idle"
    /\ provider' = "none"
    /\ cur' = 1
    /\ grp' = "ready"
    /\ vulnerabilities' = <<>>
    /\ ret' = <<>>
    /\ failed' = {}
    /\ produced' = <<>>
    /\ cancelRequested' = FALSE
    /\ doneAtCancel' = {}

\* POST /scan: scan_aws_resources / scan_azure_resources add the background task and
\* answer "started". One background task at a time: scan_all never suspends.
ScanResources(p) ==
    /\ pc = "idle"
    /\ nextId <= MaxFindings
    /\ provider' = p
    /\ pc' = "pending"
    /\ scanFirstId' = nextId
    /\ cur' = 1
    /\ grp' = "ready"
    /\ vulnerabilities' = <<>>
    /\ ret' = <<>>
    /\ failed' = {}
    /\ produced' = <<>>
    /\ cancelRequested' = FALSE
    /\ doneAtCancel' = {}
    /\ taskError' = "none"
    /\ httpCode' = 200
    /\ UNCHANGED <<store, nextId>>

\* run_*_scan: scanner = AWSScanner(...) / AzureScanner(...), then scan_all begins
\* with vulnerabilities = [].
ScannerInit ==
    /\ pc = "pending"
    /\ pc' = "scan"
    /\ cur' = 1
    /\ grp' = "ready"
    /\ vulnerabilities' = <<>>
    /\ UNCHANGED <<provider, ret, store, nextId, scanFirstId, failed, produced,
                   cancelRequested, doneAtCancel, taskError, httpCode>>

\* The scanner's constructor raises (session or client creation): the task ends.
ScannerInitRaise ==
    /\ pc = "pending"
    /\ TaskEnds
    /\ taskError' = "construct"
    /\ UNCHANGED <<store, nextId, scanFirstId, httpCode>>

\* scan_all calls the next group: await self.scan_<group>() begins its provider calls.
\* The awaits are in sequence: group cur is called once the groups before it returned.
GroupStart(g) ==
    /\ pc = "scan"
    /\ cur <= Len(Groups(provider))
    /\ Groups(provider)[cur] = g
    /\ grp = "ready"
    /\ grp' = "running"
    /\ UNCHANGED <<provider, pc, cur, vulnerabilities, ret, store, nextId, scanFirstId,
                   failed, produced, cancelRequested, doneAtCancel, taskError, httpCode>>

\* Mutant: each group's findings are written to the store as soon as the group returns.
GroupReturn_Streams(n) ==
    /\ pc = "scan"
    /\ grp = "running"
    /\ nextId + n - 1 <= MaxFindings
    /\ LET new == NewFindings(n, Groups(provider)[cur])
       IN  /\ vulnerabilities' = vulnerabilities \o new
           /\ produced' = produced \o new
           /\ store' = store \o new
    /\ nextId' = nextId + n
    /\ cur' = cur + 1
    /\ grp' = "ready"
    /\ UNCHANGED <<provider, pc, ret, scanFirstId, failed, cancelRequested,
                   doneAtCancel, taskError, httpCode>>

\* The group returns its list of n findings and scan_all extends its list with it.
GroupReturn(n) ==
    /\ pc = "scan"
    /\ grp = "running"
    /\ nextId + n - 1 <= MaxFindings
    /\ LET new == NewFindings(n, Groups(provider)[cur])
       IN  /\ vulnerabilities' = vulnerabilities \o new
           /\ produced' = produced \o new
    /\ nextId' = nextId + n
    /\ cur' = cur + 1
    /\ grp' = "ready"
    /\ UNCHANGED <<provider, pc, ret, store, scanFirstId, failed, cancelRequested,
                   doneAtCancel, taskError, httpCode>>

\* Mutant: the group's except-branch is missing, the exception leaves scan_all.
GroupRaise_Propagates ==
    /\ pc = "scan"
    /\ grp = "running"
    /\ TaskEnds
    /\ taskError' = "scan_all"
    /\ UNCHANGED <<store, nextId, scanFirstId, httpCode>>

\* Something inside the group's try raises: except Exception logs it and returns [],
\* so scan_all extends its list with nothing and goes on to the next group.
GroupRaise ==
    /\ pc = "scan"
    /\ grp = "running"
    /\ failed' = failed \cup {Groups(provider)[cur]}
    /\ vulnerabilities' = vulnerabilities \o <<>>
    /\ cur' = cur + 1
    /\ grp' = "ready"
    /\ UNCHANGED <<provider, pc, ret, store, nextId, scanFirstId, produced,
                   cancelRequested, doneAtCancel, taskError, httpCode>>

\* scan_all: return vulnerabilities, after the last group.
ScanAllReturn ==
    /\ pc = "scan"
    /\ cur = Len(Groups(provider)) + 1
    /\ ret' = vulnerabilities
    /\ pc' = "store"
    /\ UNCHANGED <<provider, cur, grp, vulnerabilities, store, nextId, scanFirstId, failed,
                   produced, cancelRequested, doneAtCancel, taskError, httpCode>>

\* run_*_scan: await db_interface.store_vulnerabilities(vulnerabilities); the task ends.
StoreResults ==
    /\ pc = "store"
    /\ store' = StoreVulnerabilities(store, ret)
    /\ TaskEnds
    /\ UNCHANGED <<nextId, scanFirstId, taskError, httpCode>>

\* store_vulnerabilities raises: the task ends with nothing stored.
StoreResultsRaise ==
    /\ pc = "store"
    /\ TaskEnds
    /\ taskError' = "store"
    /\ UNCHANGED <<store, nextId, scanFirstId, httpCode>>

\* POST /vulnerabilities/{id}/status
UpdateVulnerabilityStatus(id, status) ==
    /\ IF Lower(status) \notin VulnerabilityStatus
       THEN /\ httpCode' = 400
            /\ store' = store
       ELSE IF ~HasVulnerability(store, id)
       THEN /\ httpCode' = 404
            /\ store' = store
       ELSE /\ httpCode' = 200
            /\ store' = SetStatus(store, id, Lower(status))
    /\ UNCHANGED <<provider, pc, cur, grp, vulnerabilities, ret, nextId, scanFirstId, failed,
                   produced, cancelRequested, doneAtCancel, taskError>>

\* A cancellation of the running scan is requested (caller timeout, aborted request).
\* scan_all has no suspension point and no cancellation check: nothing reads the request.
Cancel ==
    /\ pc = "scan"
    /\ ~cancelRequested
    /\ cancelRequested' = TRUE
    /\ doneAtCancel' = {g \in GroupSet(provider) : Completed(g)}
    /\ UNCHANGED <<provider, pc, cur, grp, vulnerabilities, ret, store, nextId, scanFirstId,
                   failed, produced, taskError, httpCode>>

\* --------------------------------------- AWSScanner.scan_security_groups

MaxSGs == 2
MaxPerms == 1
MaxRanges == 2

\* A key the provider's dict does not carry.
Missing == "<missing>"

\* [22, 3389, 1433, 3306, 5432]
AdminPorts == {22, 3389, 1433, 3306, 5432}

\* FromPort/ToPort pairs of the permissions in the listings
PortPairs == {<<22, 22>>, <<20, 25>>, <<80, 80>>, <<0, 65535>>}

CidrIps == {"0.0.0.0/0", "10.0.0.0/8"}

\* ip_range dicts: {'CidrIp': ...}
IpRangeLists ==
    UNION {[1..n -> [CidrIp : CidrIps]] : n \in 0..MaxRanges}

\* permission dicts; hasPorts = FALSE: the dict carries neither FromPort nor ToPort
\* (IpProtocol '-1', all traffic)
Permissions ==
    [hasPorts : {TRUE}, FromPort : {pp[1] : pp \in PortPairs},
     ToPort : {pp[2] : pp \in PortPairs}, IpRanges : IpRangeLists]
    \cup [hasPorts : {FALSE}, FromPort : {0}, ToPort : {0}, IpRanges : IpRangeLists]

ListedPermissions ==
    {pm \in Permissions : pm.hasPorts => <<pm.FromPort, pm.ToPort>> \in PortPairs}

RECURSIVE Flatten(_)
Flatten(ss) == IF ss = <<>> THEN <<>> ELSE Head(ss) \o Flatten(Tail(ss))

\* Mutant: the whole FromPort..ToPort range is tested against the administrative ports.
SGSeverity_Range(permission) ==
    IF permission.hasPorts
       /\ \E port \in AdminPorts : permission.FromPort <= port /\ port <= permission.ToPort
    THEN "critical"
    ELSE "medium"

\* severity = MEDIUM; if permission.get('FromPort') in [22, 3389, 1433, 3306, 5432]:
\* severity = CRITICAL.  get() of an absent FromPort is None, which is in no list.
SGSeverity(permission) ==
    IF permission.hasPorts /\ permission.FromPort \in AdminPorts
    THEN "critical"
    ELSE "medium"

\* The Vulnerability appended for one open ip_range; sg, perm and range are history
\* fields: the place in the listing it was created for.
SGFinding(sg, si, pi, ri) ==
    [resource_id |-> sg.GroupId, resource_type |-> "SecurityGroup",
     cloud_provider |-> "aws", severity |-> SGSeverity(sg.IpPermissions[pi]),
     status |-> "open", sg |-> si, perm |-> pi, range |-> ri]

\* for ip_range in permission.get('IpRanges', []): if ip_range.get('CidrIp') == '0.0.0.0/0'
SGPermissionFindings(sg, si, pi) ==
    LET ranges == sg.IpPermissions[pi].IpRanges
        open == SelectSeq([k \in 1..Len(ranges) |-> k],
                          LAMBDA k : ranges[k].CidrIp = "0.0.0.0/0")
    IN  [j \in 1..Len(open) |-> SGFinding(sg, si, pi, open[j])]

\* for permission in sg.get('IpPermissions', [])
SGGroupFindings(sg, si) ==
    Flatten([pi \in 1..Len(sg.IpPermissions) |-> SGPermissionFindings(sg, si, pi)])

\* for sg in response['SecurityGroups']: sg_id = sg['GroupId'] raises KeyError on a
\* group without the key; except Exception then returns [] for the whole group.
RECURSIVE SGLoop(_, _, _)
SGLoop(listing, i, acc) ==
    IF i > Len(listing) THEN [raised |-> FALSE, findings |-> acc]
    ELSE IF listing[i].GroupId = Missing THEN [raised |-> TRUE, findings |-> <<>>]
    ELSE SGLoop(listing, i + 1, acc \o SGGroupFindings(listing[i], i))

scan_security_groups(listing) == SGLoop(listing, 1, <<>>)

NotScanned == [state |-> "none", apiError |-> FALSE, raised |-> FALSE, findings |-> <<>>]

\* A security group exists in the account (with or without the GroupId key in the
\* provider's answer) and has no ingress permission yet.
CreateSecurityGroup(id) ==
    /\ Len(sgListing) < MaxSGs
    /\ sgListing' = Append(sgListing, [GroupId |-> id, IpPermissions |-> <<>>])
    /\ sgResult' = NotScanned

\* An ingress permission is added to the newest security group.
AuthorizeIngress(permission) ==
    /\ sgListing # <<>>
    /\ Len(sgListing[Len(sgListing)].IpPermissions) < MaxPerms
    /\ sgListing' = [sgListing EXCEPT ![Len(sgListing)].IpPermissions =
                         Append(@, permission)]
    /\ sgResult' = NotScanned

\* scan_security_groups with describe_security_groups answering sgListing
ScanSecurityGroups ==
    /\ sgResult.state = "none"
    /\ LET r == scan_security_groups(sgListing)
       IN  sgResult' = [state |-> "returned", apiError |-> FALSE,
                        raised |-> r.raised, findings |-> r.findings]
    /\ UNCHANGED sgListing

\* scan_security_groups with describe_security_groups raising: except returns []
ScanSecurityGroupsApiError ==
    /\ sgResult.state = "none"
    /\ sgResult' = [state |-> "returned", apiError |-> TRUE, raised |-> TRUE,
                    findings |-> <<>>]
    /\ UNCHANGED sgListing

\* --------------------------- AzureScanner.scan_network_security_groups

MaxNSGs == 2
MaxRules == 2

\* rule.destination_port_range, by the shape of its text:
\*   none      the attribute is None (the rule uses destination_port_ranges)
\*   star      '*'
\*   single    the decimal text of port a
\*   range     the decimal text of a, '-', the decimal text of b
\*   dashtext  a text with '-' that is not two integers ('22-ssh', '1-2-3')
PortRanges ==
    {[kind |-> "none", a |-> 0, b |-> 0],
     [kind |-> "star", a |-> 0, b |-> 0],
     [kind |-> "single", a |-> 22, b |-> 22],
     [kind |-> "single", a |-> 80, b |-> 80],
     [kind |-> "range", a |-> 20, b |-> 25],
     [kind |-> "range", a |-> 1433, b |-> 1434],
     [kind |-> "dashtext", a |-> 0, b |-> 0]}

\* access, direction and source_address_prefix of the rules in the listings
RuleHeads ==
    {<<"Allow", "Inbound", "*">>, <<"Allow", "Inbound", "Internet">>,
     <<"Allow", "Inbound", "10.0.0.0/8">>, <<"Deny", "Inbound", "*">>,
     <<"Allow", "Outbound", "*">>}

\* The rules of the listings. The port range of a rule that is not open is one the
\* detector would escalate ('*') or fail on (None) if it read it.
SecurityRules ==
    {[access |-> h[1], direction |-> h[2], source_address_prefix |-> h[3],
      destination_port_range |-> pr] : h \in RuleHeads, pr \in PortRanges}

ListedRules ==
    {rule \in SecurityRules :
        \/ rule.access = "Allow" /\ rule.direction = "Inbound"
           /\ rule.source_address_prefix \in {"*", "Internet"}
        \/ rule.destination_port_range.kind \in {"star", "none"}}

\* rule.access == 'Allow' and rule.direction == 'Inbound' and
\* (rule.source_address_prefix == '*' or rule.source_address_prefix == 'Internet')
NSGRuleOpen(rule) ==
    /\ rule.access = "Allow"
    /\ rule.direction = "Inbound"
    /\ (rule.source_address_prefix = "*" \/ rule.source_address_prefix = "Internet")

\* port_range in ['22', '3389', '1433', '3306', '5432', '*']
NSGPortListed(port_range) ==
    \/ port_range.kind = "star"
    \/ port_range.kind = "single" /\ port_range.a \in AdminPorts

\* '-' in port_range: TypeError when port_range is None
NSGDashRaises(port_range) == port_range.kind = "none"

NSGHasDash(port_range) == port_range.kind \in {"range", "dashtext"}

\* Mutant: a range is tested against every administrative port.
NSGRangeCritical_AllPorts(port_range) ==
    /\ port_range.kind = "range"
    /\ \E port \in AdminPorts : port >= port_range.a /\ port <= port_range.b

\* start_port, end_port = map(int, port_range.split('-')); ValueError (dashtext): pass
\* (22 >= start_port and 22 <= end_port) or (3389 >= start_port and 3389 <= end_port)
NSGRangeCritical(port_range) ==
    /\ port_range.kind = "range"
    /\ \/ 22 >= port_range.a /\ 22 <= port_range.b
       \/ 3389 >= port_range.a /\ 3389 <= port_range.b

\* is_critical, for a port_range that is not None
NSGIsCritical(port_range) ==
    IF NSGPortListed(port_range) THEN TRUE
    ELSE IF NSGHasDash(port_range) THEN NSGRangeCritical(port_range)
    ELSE FALSE

\* The Vulnerability appended for one open rule; nsg and rule are history fields.
NSGFinding(nsg, ni, ri) ==
    [resource_id |-> nsg.id, resource_type |-> "NetworkSecurityGroup",
     cloud_provider |-> "azure",
     severity |-> IF NSGIsCritical(nsg.security_rules[ri].destination_port_range)
                  THEN "critical" ELSE "high",
     status |-> "open", nsg |-> ni, rule |-> ri]

\* for rule in nsg.security_rules, up to the first rule that raises
RECURSIVE NSGRuleLoop(_, _, _, _)
NSGRuleLoop(nsg, ni, ri, acc) ==
    IF ri > Len(nsg.security_rules) THEN [raised |-> FALSE, findings |-> acc]
    ELSE LET rule == nsg.security_rules[ri]
         IN  IF ~NSGRuleOpen(rule) THEN NSGRuleLoop(nsg, ni, ri + 1, acc)
             ELSE IF ~NSGPortListed(rule.destination_port_range)
                     /\ NSGDashRaises(rule.destination_port_range)
             THEN [raised |-> TRUE, findings |-> <<>>]
             ELSE NSGRuleLoop(nsg, ni, ri + 1, Append(acc, NSGFinding(nsg, ni, ri)))

\* for nsg in nsgs; an exception anywhere: except Exception returns []
RECURSIVE NSGLoop(_, _, _)
NSGLoop(listing, ni, acc) ==
    IF ni > Len(listing) THEN [raised |-> FALSE, findings |-> acc]
    ELSE LET r == NSGRuleLoop(listing[ni], ni, 1, <<>>)
         IN  IF r.raised THEN [raised |-> TRUE, findings |-> <<>>]
             ELSE NSGLoop(listing, ni + 1, acc \o r.findings)

scan_network_security_groups(listing) == NSGLoop(listing, 1, <<>>)

NSGRuleCount(listing) ==
    Len(Flatten([ni \in 1..Len(listing) |-> listing[ni].security_rules]))

\* A network security group exists in the subscription, with no rule yet.
CreateNSG ==
    /\ Len(nsgListing) < MaxNSGs
    /\ nsgListing' = Append(nsgListing, [id |-> Len(nsgListing) + 1, security_rules |-> <<>>])
    /\ nsgResult' = NotScanned

\* A security rule is added to the newest network security group.
CreateSecurityRule(rule) ==
    /\ nsgListing # <<>>
    /\ NSGRuleCount(nsgListing) < MaxRules
    /\ nsgListing' = [nsgListing EXCEPT ![Len(nsgListing)].security_rules = Append(@, rule)]
    /\ nsgResult' = NotScanned

\* scan_network_security_groups with list_all() answering nsgListing
ScanNetworkSecurityGroups ==
    /\ nsgResult.state = "none"
    /\ LET r == scan_network_security_groups(nsgListing)
       IN  nsgResult' = [state |-> "returned", apiError |-> FALSE,
                         raised |-> r.raised, findings |-> r.findings]
    /\ UNCHANGED nsgListing

\* scan_network_security_groups with list_all() raising: except returns []
ScanNetworkSecurityGroupsApiError ==
    /\ nsgResult.state = "none"
    /\ nsgResult' = [state |-> "returned", apiError |-> TRUE, raised |-> TRUE,
                     findings |-> <<>>]
    /\ UNCHANGED nsgListing

\* ------------------------------------------------ AWSScanner.scan_s3_buckets

MaxBuckets == 2

\* The four keys read from PublicAccessBlockConfiguration
PublicAccessBlockSettings ==
    {"BlockPublicAcls", "IgnorePublicAcls", "BlockPublicPolicy", "RestrictPublicBuckets"}

\* What s3.get_bucket_encryption answers for a bucket: a configuration, a ClientError
\* with the code the scanner tests for, a ClientError with another code, or an
\* exception that is no ClientError.
EncryptionAnswers ==
    {"configured", "ServerSideEncryptionConfigurationNotFoundError", "AccessDenied", "error"}

\* What s3.get_public_access_block answers for a bucket: a response with a
\* PublicAccessBlockConfiguration whose settings in `enabled` are true (the others
\* false or absent), a response without the key, or the ClientError S3 raises for a
\* bucket that has no public-access-block configuration.
PublicAccessAnswers ==
    [answer : {"config"}, enabled : SUBSET PublicAccessBlockSettings]
    \cup [answer : {"nokey", "NoSuchPublicAccessBlockConfiguration"}, enabled : {{}}]

\* The buckets of the listings; one of them arrives without the 'Name' key.
Buckets ==
    [Name : {"bucket-a"}, encryption : EncryptionAnswers, publicAccess : PublicAccessAnswers]
    \cup {[Name |-> Missing, encryption |-> "configured",
           publicAccess |-> [answer |-> "config", enabled |-> PublicAccessBlockSettings]]}

\* The Vulnerability appended for a bucket; check and bucket are history fields.
S3Finding(bucket, bi, check) ==
    [resource_id |-> bucket.Name, resource_type |-> "S3Bucket", cloud_provider |-> "aws",
     region |-> "aws_region", severity |-> "high", status |-> "open",
     check |-> check, bucket |-> bi]

\* try: get_bucket_encryption; except ClientError: finding if the code is
\* ServerSideEncryptionConfigurationNotFoundError, nothing for any other code.
S3EncryptionFindings(bucket, bi) ==
    IF bucket.encryption = "ServerSideEncryptionConfigurationNotFoundError"
    THEN <<S3Finding(bucket, bi, "encryption")>>
    ELSE <<>>

\* block_config = public_access.get('PublicAccessBlockConfiguration', {});
\* if not all([block_config.get(k, False) for the four keys]): finding.
\* except Exception: logger.warning, no finding.
S3PublicAccessFindings(bucket, bi) ==
    IF bucket.publicAccess.answer = "NoSuchPublicAccessBlockConfiguration" THEN <<>>
    ELSE IF bucket.publicAccess.enabled # PublicAccessBlockSettings
    THEN <<S3Finding(bucket, bi, "public_access")>>
    ELSE <<>>

\* for bucket in response['Buckets']: bucket['Name'] raises KeyError on a bucket
\* without the key, and an exception of get_bucket_encryption that is no ClientError
\* is not caught in the loop; except Exception then returns [] for the whole group.
RECURSIVE S3Loop(_, _, _)
S3Loop(listing, i, acc) ==
    IF i > Len(listing) THEN [raised |-> FALSE, findings |-> acc]
    ELSE IF listing[i].Name = Missing \/ listing[i].encryption = "error"
    THEN [raised |-> TRUE, findings |-> <<>>]
    ELSE S3Loop(listing, i + 1,
                acc \o S3EncryptionFindings(listing[i], i)
                    \o S3PublicAccessFindings(listing[i], i))

scan_s3_buckets(listing) == S3Loop(listing, 1, <<>>)

\* A bucket exists in the account.
CreateBucket(bucket) ==
    /\ Len(s3Listing) < MaxBuckets
    /\ s3Listing' = Append(s3Listing, bucket)
    /\ s3Result' = NotScanned

\* scan_s3_buckets with list_buckets answering s3Listing
ScanS3Buckets ==
    /\ s3Result.state = "none"
    /\ LET r == scan_s3_buckets(s3Listing)
       IN  s3Result' = [state |-> "returned", apiError |-> FALSE,
                        raised |-> r.raised, findings |-> r.findings]
    /\ UNCHANGED s3Listing

\* scan_s3_buckets with list_buckets raising: except returns []
ScanS3BucketsApiError ==
    /\ s3Result.state = "none"
    /\ s3Result' = [state |-> "returned", apiError |-> TRUE, raised |-> TRUE,
                    findings |-> <<>>]
    /\ UNCHANGED s3Listing

\* ------------------------------------------ AzureScanner.scan_storage_accounts

MaxAccounts == 2

\* account.id: an ARM id, whose fifth '/'-separated piece is the resource group, and
\* an id too short for account_id.split('/')[4]
StorageAccountId ==
    "/subscriptions/sub-1/resourceGroups/rg-1/providers/Microsoft.Storage/storageAccounts/sa1"

ShortId == "sa1"

\* account.encryption.services.<service>: enabled true, enabled false, or no such
\* service object (None)
EncryptionServiceStates == {"enabled", "disabled", "absent"}

\* The storage accounts of the listings; one of them carries the short id.
StorageAccounts ==
    [id : {StorageAccountId}, allow_blob_public_access : BOOLEAN,
     enable_https_traffic_only : BOOLEAN,
     blob : EncryptionServiceStates, file : EncryptionServiceStates]
    \cup {[id |-> ShortId, allow_blob_public_access |-> TRUE,
           enable_https_traffic_only |-> FALSE, blob |-> "disabled", file |-> "disabled"]}

\* The Vulnerability appended for an account; check and account are history fields.
SAFinding(account, ai, check, title, severity) ==
    [title |-> title, resource_id |-> account.id, resource_type |-> "StorageAccount",
     cloud_provider |-> "azure", region |-> "location", severity |-> severity,
     status |-> "open", check |-> check, account |-> ai]

\* if account.allow_blob_public_access: HIGH
SAPublicAccessFindings(account, ai) ==
    IF account.allow_blob_public_access
    THEN <<SAFinding(account, ai, "public_blob_access", "allows public blob access", "high")>>
    ELSE <<>>

\* if not account.enable_https_traffic_only: HIGH
SAHttpsFindings(account, ai) ==
    IF ~account.enable_https_traffic_only
    THEN <<SAFinding(account, ai, "non_https", "allows non-HTTPS traffic", "high")>>
    ELSE <<>>

\* if not ...blob.enabled or not ...file.enabled: MEDIUM, whichever of the two is off
SAEncryptionFindings(account, ai) ==
    IF account.blob # "enabled" \/ account.file # "enabled"
    THEN <<SAFinding(account, ai, "encryption", "has incomplete encryption", "medium")>>
    ELSE <<>>

\* Mutant: the three checks as an if/elif chain, which stops at the first violation.
SAAccountFindings_FirstMatch(account, ai) ==
    IF account.allow_blob_public_access THEN SAPublicAccessFindings(account, ai)
    ELSE IF ~account.enable_https_traffic_only THEN SAHttpsFindings(account, ai)
    ELSE SAEncryptionFindings(account, ai)

\* The three independent if statements of the loop body.
SAAccountFindings(account, ai) ==
    SAPublicAccessFindings(account, ai) \o SAHttpsFindings(account, ai)
        \o SAEncryptionFindings(account, ai)

\* What raises inside the loop body: split('/')[4] on a short id (IndexError), and
\* .enabled of a service that is None (AttributeError): blob is read first, file only
\* when blob is enabled (`or` short-circuits).
SAAccountRaises(account) ==
    \/ account.id = ShortId
    \/ account.blob = "absent"
    \/ account.blob = "enabled" /\ account.file = "absent"

\* for account in storage_accounts: ...; except Exception returns [] for the group.
RECURSIVE SALoop(_, _, _)
SALoop(listing, i, acc) ==
    IF i > Len(listing) THEN [raised |-> FALSE, findings |-> acc]
    ELSE IF SAAccountRaises(listing[i]) THEN [raised |-> TRUE, findings |-> <<>>]
    ELSE SALoop(listing, i + 1, acc \o SAAccountFindings(listing[i], i))

scan_storage_accounts(listing) == SALoop(listing, 1, <<>>)

\* A storage account exists in the subscription.
CreateStorageAccount(account) ==
    /\ Len(saListing) < MaxAccounts
    /\ saListing' = Append(saListing, account)
    /\ saResult' = NotScanned

\* scan_storage_accounts with storage_accounts.list() answering saListing
ScanStorageAccounts ==
    /\ saResult.state = "none"
    /\ LET r == scan_storage_accounts(saListing)
       IN  saResult' = [state |-> "returned", apiError |-> FALSE,
                        raised |-> r.raised, findings |-> r.findings]
    /\ UNCHANGED saListing

\* scan_storage_accounts with storage_accounts.list() raising: except returns []
ScanStorageAccountsApiError ==
    /\ saResult.state = "none"
    /\ saResult' = [state |-> "returned", apiError |-> TRUE, raised |-> TRUE,
                    findings |-> <<>>]
    /\ UNCHANGED saListing

\* ----------------------------------------------- AWSScanner.scan_iam_policies

MaxPolicies == 2
MaxStatements == 2

\* The value of a statement's Action or Resource key: a string, a list of strings,
\* or absent (statement.get answers None).
ElementForms ==
    {[kind |-> "scalar", values |-> {"*"}],
     [kind |-> "scalar", values |-> {"s3:GetObject"}],
     [kind |-> "list", values |-> {"s3:GetObject", "*"}],
     [kind |-> "list", values |-> {"s3:GetObject"}],
     [kind |-> "none", values |-> {}]}

\* The statements of the policy documents: every Allow statement, and the Deny
\* statements that name every action on every resource.
Statements ==
    [Effect : {"Allow"}, Action : ElementForms, Resource : ElementForms]
    \cup {[Effect |-> "Deny", Action |-> e, Resource |-> e] :
             e \in {f \in ElementForms : "*" \in f.values}}

\* x == '*' or (isinstance(x, list) and '*' in x)
IAMIsStar(x) ==
    \/ x.kind = "scalar" /\ x.values = {"*"}
    \/ x.kind = "list" /\ "*" \in x.values

\* effect == 'Allow' and <Action is star> and <Resource is star>
IAMAllowsAll(statement) ==
    /\ statement.Effect = "Allow"
    /\ IAMIsStar(statement.Action)
    /\ IAMIsStar(statement.Resource)

\* The Vulnerability appended for a statement; policy and statement are history fields.
\* Mutant: the finding of a policy carries the scanner's region.
IAMFinding_Regional(policy, pi, si) ==
    [resource_id |-> policy.PolicyId, resource_type |-> "IAMPolicy",
     cloud_provider |-> "aws", region |-> "aws_region", severity |-> "critical",
     status |-> "open", policy |-> pi, statement |-> si]

IAMFinding(policy, pi, si) ==
    [resource_id |-> policy.PolicyId, resource_type |-> "IAMPolicy",
     cloud_provider |-> "aws", region |-> "global", severity |-> "critical",
     status |-> "open", policy |-> pi, statement |-> si]

\* for statement in document.get('Statement', []): if isinstance(statement, dict): ...
\* When Statement is a list, the loop visits its statements. When Statement is one
\* statement object, the loop visits the keys of that dict, which are strings: no
\* isinstance(statement, dict) holds and nothing is appended.
IAMPolicyFindings(policy, pi) ==
    IF policy.form = "list"
    THEN LET all == SelectSeq([k \in 1..Len(policy.Statement) |-> k],
                              LAMBDA k : IAMAllowsAll(policy.Statement[k]))
         IN  [j \in 1..Len(all) |-> IAMFinding(policy, pi, all[j])]
    ELSE <<>>

\* for policy in response['Policies']: policy['PolicyId'] raises KeyError on a policy
\* without the key (as does get_policy_version on an error of the service); except
\* Exception then returns [] for the whole group.
RECURSIVE IAMLoop(_, _, _)
IAMLoop(listing, i, acc) ==
    IF i > Len(listing) THEN [raised |-> FALSE, findings |-> acc]
    ELSE IF listing[i].PolicyId = Missing THEN [raised |-> TRUE, findings |-> <<>>]
    ELSE IAMLoop(listing, i + 1, acc \o IAMPolicyFindings(listing[i], i))

scan_iam_policies(listing) == IAMLoop(listing, 1, <<>>)

IAMStatementCount(listing) ==
    LET RECURSIVE Count(_)
        Count(i) == IF i > Len(listing) THEN 0
                    ELSE Len(listing[i].Statement) + Count(i + 1)
    IN  Count(1)

\* A customer-managed policy exists whose default version's document has a list as
\* its Statement, empty so far.
CreatePolicy(id) ==
    /\ Len(iamListing) < MaxPolicies
    /\ iamListing' = Append(iamListing, [PolicyId |-> id, form |-> "list", Statement |-> <<>>])
    /\ iamResult' = NotScanned

\* A customer-managed policy exists whose document has one statement object as its
\* Statement.
CreateSingleStatementPolicy(statement) ==
    /\ Len(iamListing) < MaxPolicies
    /\ IAMStatementCount(iamListing) < MaxStatements
    /\ iamListing' = Append(iamListing, [PolicyId |-> "ANPA1", form |-> "single",
                                         Statement |-> <<statement>>])
    /\ iamResult' = NotScanned

\* A statement is added to the Statement list of the newest policy.
AddStatement(statement) ==
    /\ iamListing # <<>>
    /\ iamListing[Len(iamListing)].form = "list"
    /\ IAMStatementCount(iamListing) < MaxStatements
    /\ iamListing' = [iamListing EXCEPT ![Len(iamListing)].Statement = Append(@, statement)]
    /\ iamResult' = NotScanned

\* scan_iam_policies with list_policies answering iamListing
ScanIAMPolicies ==
    /\ iamResult.state = "none"
    /\ LET r == scan_iam_policies(iamListing)
       IN  iamResult' = [state |-> "returned", apiError |-> FALSE,
                         raised |-> r.raised, findings |-> r.findings]
    /\ UNCHANGED iamListing

\* scan_iam_policies with list_policies raising: except returns []
ScanIAMPoliciesApiError ==
    /\ iamResult.state = "none"
    /\ iamResult' = [state |-> "returned", apiError |-> TRUE, raised |-> TRUE,
                     findings |-> <<>>]
    /\ UNCHANGED iamListing

\* ------------------------------------------ AzureScanner.scan_role_assignments

MaxAssignments == 4

\* if len(owner_assignments) > 3
OwnerThreshold == 3

\* len(principal_id) == 36
UuidLength == 36

\* assignment.principal_id: an object id in UUID form, a shorter identifier, or None
PrincipalIds == {"0a1b2c3d-0000-4000-8000-00000000000a", "alice", "None"}

\* len(principal_id); len(None) raises TypeError, which the try around the test
\* catches: -1 stands for that outcome.
PrincipalLen(principal_id) ==
    CASE principal_id = "0a1b2c3d-0000-4000-8000-00000000000a" -> 36
      [] principal_id = "alice" -> 5
      [] OTHER -> -1

\* role_name of the role definitions and of the definition an assignment points to
RoleNames == {"Owner", "Contributor", "Reader"}

RoleAssignments == [role : RoleNames, principal_id : PrincipalIds]

\* The Vulnerability appended for the Owner count
RAOwnerCountFinding ==
    [resource_id |-> "/subscriptions/subscription_id", resource_type |-> "Subscription",
     cloud_provider |-> "azure", region |-> "global", severity |-> "high",
     status |-> "open", assignment |-> 0]

\* The Vulnerability appended for an Owner assignment of a principal whose id has 36
\* characters; assignment is a history field.
RAServicePrincipalFinding(ai) ==
    [resource_id |-> "assignment.id", resource_type |-> "RoleAssignment",
     cloud_provider |-> "azure", region |-> "global", severity |-> "high",
     status |-> "open", assignment |-> ai]

\* owner_assignments: the assignments whose role_definition_id is the Owner role's
RAOwnerAssignments(assignments) ==
    SelectSeq([k \in 1..Len(assignments) |-> k], LAMBDA k : assignments[k].role = "Owner")

\* if len(owner_assignments) > 3: one Subscription finding
RACountFindings(owners) ==
    IF Len(owners) > OwnerThreshold THEN <<RAOwnerCountFinding>> ELSE <<>>

\* for assignment_id, principal_id in owner_assignments: if len(principal_id) == 36
\* (not nested under the count test: it runs for any number of Owner assignments)
RAServicePrincipalFindings(assignments, owners) ==
    LET sp == SelectSeq(owners,
                        LAMBDA k : PrincipalLen(assignments[k].principal_id) = UuidLength)
    IN  [j \in 1..Len(sp) |-> RAServicePrincipalFinding(sp[j])]

\* if not owner_id or not contributor_id: return []
scan_role_assignments(listing) ==
    IF ~({"Owner", "Contributor"} \subseteq listing.roleDefinitions) THEN <<>>
    ELSE LET owners == RAOwnerAssignments(listing.assignments)
         IN  RACountFindings(owners)
                 \o RAServicePrincipalFindings(listing.assignments, owners)

RAIdle ==
    /\ raListing = [roleDefinitions |-> {}, assignments |-> <<>>]
    /\ raResult = NotScanned

\* role_definitions.list answers a definition named role_name.
DefineRole(role_name) ==
    /\ raListing.assignments = <<>>
    /\ role_name \notin raListing.roleDefinitions
    /\ raListing' = [raListing EXCEPT !.roleDefinitions = @ \cup {role_name}]
    /\ raResult' = NotScanned

\* A role assignment exists in the subscription.
CreateRoleAssignment(assignment) ==
    /\ Len(raListing.assignments) < MaxAssignments
    /\ raListing' = [raListing EXCEPT !.assignments = Append(@, assignment)]
    /\ raResult' = NotScanned

\* scan_role_assignments with the authorization client answering raListing
ScanRoleAssignments ==
    /\ raResult.state = "none"
    /\ raResult' = [state |-> "returned", apiError |-> FALSE, raised |-> FALSE,
                    findings |-> scan_role_assignments(raListing)]
    /\ UNCHANGED raListing

\* scan_role_assignments with the authorization client raising: except returns []
ScanRoleAssignmentsApiError ==
    /\ raResult.state = "none"
    /\ raResult' = [state |-> "returned", apiError |-> TRUE, raised |-> TRUE,
                    findings |-> <<>>]
    /\ UNCHANGED raListing

\* ------------------------------------------ AWSScanner.fetch_guardduty_findings

MaxGDFindings == 2

\* GuardDuty severities, in tenths: 70 stands for 7.0. The scores of the listings sit
\* on and just below every threshold of the mapping.
GDScores == {0, 9, 10, 29, 30, 49, 50, 69, 70, 89}

\* The findings get_findings answers; hasSeverity = FALSE: the dict carries no
\* 'Severity' key.
GDFindings ==
    [hasSeverity : {TRUE}, Severity : GDScores]
    \cup {[hasSeverity |-> FALSE, Severity |-> 0]}

\* gd_severity = finding.get('Severity', 0)
GDSeverityOf(finding) == IF finding.hasSeverity THEN finding.Severity ELSE 0

\* Mutant: thresholds exclusive on the lower bound
GDSeverityLevel_Exclusive(gd_severity) ==
    IF gd_severity > 70 THEN "critical"
    ELSE IF gd_severity > 50 THEN "high"
    ELSE IF gd_severity > 30 THEN "medium"
    ELSE IF gd_severity > 10 THEN "low"
    ELSE "info"

\* if gd_severity >= 7.0 ... elif >= 5.0 ... elif >= 3.0 ... elif >= 1.0 ... else INFO
GDSeverityLevel(gd_severity) ==
    IF gd_severity >= 70 THEN "critical"
    ELSE IF gd_severity >= 50 THEN "high"
    ELSE IF gd_severity >= 30 THEN "medium"
    ELSE IF gd_severity >= 10 THEN "low"
    ELSE "info"

\* The Vulnerability appended for a GuardDuty finding: cvss_score=gd_severity is passed
\* for every finding. finding is a history field.
GDVulnerability(finding, fi) ==
    [resource_type |-> "Unknown", cloud_provider |-> "aws", region |-> "aws_region",
     severity |-> GDSeverityLevel(GDSeverityOf(finding)), status |-> "open",
     cvss_score |-> GDSeverityOf(finding), finding |-> fi]

\* for finding in findings_response.get('Findings', [])
fetch_guardduty_findings(listing) ==
    [fi \in 1..Len(listing) |-> GDVulnerability(listing[fi], fi)]

\* The detector of the region holds one more finding.
GuardDutyFinding(finding) ==
    /\ Len(gdListing) < MaxGDFindings
    /\ gdListing' = Append(gdListing, finding)
    /\ gdResult' = NotScanned

\* fetch_guardduty_findings with one detector whose findings are gdListing
FetchGuardDutyFindings ==
    /\ gdResult.state = "none"
    /\ gdResult' = [state |-> "returned", apiError |-> FALSE, raised |-> FALSE,
                    findings |-> fetch_guardduty_findings(gdListing)]
    /\ UNCHANGED gdListing

\* fetch_guardduty_findings with list_detectors answering no detector, or raising:
\* return []
FetchGuardDutyNotEnabled ==
    /\ gdResult.state = "none"
    /\ gdListing = <<>>
    /\ gdResult' = [state |-> "returned", apiError |-> TRUE, raised |-> FALSE,
                    findings |-> <<>>]
    /\ UNCHANGED gdListing

\* fetch_guardduty_findings with list_findings or get_findings raising: except
\* returns []
FetchGuardDutyApiError ==
    /\ gdResult.state = "none"
    /\ gdResult' = [state |-> "returned", apiError |-> TRUE, raised |-> TRUE,
                    findings |-> <<>>]
    /\ UNCHANGED gdListing

\* ------ AWSScanner.fetch_security_hub_findings,
\* ------ AzureScanner.fetch_security_center_recommendations

\* Security Hub findings and Security Center assessments held by the two services
\* together
MaxLabelled == 2

\* finding['Severity']['Label'] as it arrives: the labels of the vocabulary, two
\* labels that differ from one of them in letter case only, a label outside it, and
\* a Severity dict without the Label key. (The request filters on SeverityLabel
\* EQUALS HIGH; the answer is not checked against the filter.)
HubLabels ==
    {"CRITICAL", "HIGH", "MEDIUM", "LOW", "INFORMATIONAL", "high", "Critical", "SEVERE",
     Missing}

\* The findings get_findings answers; hasSeverity = FALSE: the dict carries no
\* 'Severity' key, and finding.get('Severity', {}) is the empty dict.
HubFindings ==
    [hasSeverity : {TRUE}, Label : HubLabels]
    \cup {[hasSeverity |-> FALSE, Label |-> Missing]}

\* Mutant: one default for both sources (MEDIUM)
HubSeverity_DefaultMedium(label) ==
    CASE label = "CRITICAL" -> "critical"
      [] label = "HIGH" -> "high"
      [] label = "MEDIUM" -> "medium"
      [] label = "LOW" -> "low"
      [] label = "INFORMATIONAL" -> "info"
      [] OTHER -> "medium"

\* severity_map.get(finding.get('Severity', {}).get('Label', 'LOW'), SeverityLevel.LOW):
\* a dict lookup on the label as it arrived; an absent Label reads as 'LOW'.
HubSeverity(label) ==
    CASE label = "CRITICAL" -> "critical"
      [] label = "HIGH" -> "high"
      [] label = "MEDIUM" -> "medium"
      [] label = "LOW" -> "low"
      [] label = "INFORMATIONAL" -> "info"
      [] OTHER -> "low"

\* The Vulnerability appended for a Security Hub finding (no cvss_score is passed);
\* finding is a history field.
HubVulnerability(finding, fi) ==
    [cloud_provider |-> "aws", region |-> "aws_region",
     severity |-> HubSeverity(finding.Label), status |-> "open", finding |-> fi]

\* for finding in response['Findings']
fetch_security_hub_findings(listing) ==
    [fi \in 1..Len(listing) |-> HubVulnerability(listing[fi], fi)]

\* assessment.status.severity as it arrives: the vocabulary, a label that differs
\* from one of its labels in letter case only, a label outside it, and None.
SCSeverities == {"High", "Medium", "Low", "high", "Critical", "None"}

\* The assessments of the listings: the unhealthy ones with every severity, and one
\* healthy and one not-applicable assessment.
Assessments ==
    [code : {"Unhealthy"}, severity : SCSeverities]
    \cup {[code |-> "Healthy", severity |-> "High"],
          [code |-> "NotApplicable", severity |-> "High"]}

\* severity_map.get(assessment.status.severity, SeverityLevel.MEDIUM)
SCSeverity(severity) ==
    CASE severity = "High" -> "high"
      [] severity = "Medium" -> "medium"
      [] severity = "Low" -> "low"
      [] OTHER -> "medium"

\* The Vulnerability appended for an assessment; assessment is a history field.
SCVulnerability(assessment, ai) ==
    [cloud_provider |-> "azure", region |-> "location",
     severity |-> SCSeverity(assessment.severity), status |-> "open", assessment |-> ai]

\* for assessment in assessments: if assessment.status.code == "Healthy": continue
fetch_security_center_recommendations(listing) ==
    LET kept == SelectSeq([k \in 1..Len(listing) |-> k],
                          LAMBDA k : listing[k].code # "Healthy")
    IN  [j \in 1..Len(kept) |-> SCVulnerability(listing[kept[j]], kept[j])]

\* Security Hub holds one more finding.
SecurityHubFinding(finding) ==
    /\ Len(hubListing) + Len(scListing) < MaxLabelled
    /\ hubListing' = Append(hubListing, finding)
    /\ hubResult' = NotScanned
    /\ UNCHANGED <<scListing, scResult>>

\* fetch_security_hub_findings with get_findings answering hubListing
FetchSecurityHubFindings ==
    /\ hubResult.state = "none"
    /\ hubResult' = [state |-> "returned", apiError |-> FALSE, raised |-> FALSE,
                     findings |-> fetch_security_hub_findings(hubListing)]
    /\ UNCHANGED <<hubListing, scListing, scResult>>

\* fetch_security_hub_findings with get_findings raising, at the probe
\* (MaxResults=1) or at the query: return []
FetchSecurityHubApiError ==
    /\ hubResult.state = "none"
    /\ hubResult' = [state |-> "returned", apiError |-> TRUE, raised |-> TRUE,
                     findings |-> <<>>]
    /\ UNCHANGED <<hubListing, scListing, scResult>>

\* Security Center holds one more assessment.
SecurityCenterAssessment(assessment) ==
    /\ Len(hubListing) + Len(scListing) < MaxLabelled
    /\ scListing' = Append(scListing, assessment)
    /\ scResult' = NotScanned
    /\ UNCHANGED <<hubListing, hubResult>>

\* fetch_security_center_recommendations with assessments.list() answering scListing
FetchSecurityCenterRecommendations ==
    /\ scResult.state = "none"
    /\ scResult' = [state |-> "returned", apiError |-> FALSE, raised |-> FALSE,
                    findings |-> fetch_security_center_recommendations(scListing)]
    /\ UNCHANGED <<scListing, hubListing, hubResult>>

\* fetch_security_center_recommendations with assessments.list() raising: except
\* returns []
FetchSecurityCenterApiError ==
    /\ scResult.state = "none"
    /\ scResult' = [state |-> "returned", apiError |-> TRUE, raised |-> TRUE,
                    findings |-> <<>>]
    /\ UNCHANGED <<scListing, hubListing, hubResult>>

\* ------------------------------------- compliance_routes.get_standard_summary

MaxComplianceFindings == 2

\* Rows of compliance_findings, each with the cloud_provider of the Vulnerability it
\* is joined to by vulnerability_id.
ComplianceRows ==
    [standard : {"CIS", "PCI"}, control_id : {"1.1", "1.2"}, is_compliant : BOOLEAN,
     cloud_provider : {"aws", "azure"}]

\* The path parameter and the optional query parameter of the request ("" : not given)
StandardInputs == {"CIS", "PCI", "NIST"}

CloudProviderInputs == {"", "aws", "AWS", "gcp?"}

NoSummary == [code |-> 0, standard |-> "", cloud_provider |-> "", controls |-> {}]

\* The values of the CloudProvider enum
CloudProvider == {"aws", "azure"}

\* cloud_provider.lower()
LowerProvider(cloud_provider) == IF cloud_provider = "AWS" THEN "aws" ELSE cloud_provider

NoOverall == [total_controls |-> 0, compliant_controls |-> 0, compliance_percentage |-> 0]

NoComplianceSummary ==
    [code |-> 0, cloud_provider |-> "", raised |-> "", summary |-> {}, overall |-> NoOverall]

ComplianceIdle ==
    /\ complianceFindings = <<>>
    /\ summary = NoSummary
    /\ complianceSummary = NoComplianceSummary

\* A ComplianceFinding is derived from a Finding and stored.
InsertComplianceFinding(row) ==
    /\ Len(complianceFindings) < MaxComplianceFindings
    /\ complianceFindings' = Append(complianceFindings, row)
    /\ summary' = NoSummary
    /\ complianceSummary' = NoComplianceSummary

\* GET /standards/{standard}/summary. The first statement of the handler builds the
\* query and, for it, evaluates func.cast(ComplianceFinding.is_compliant, db.Integer)
\* with db the sqlalchemy.orm.Session of get_db: a Session has no attribute Integer,
\* so AttributeError is raised before any query runs, whatever the parameters and
\* the table; except Exception turns it into HTTPException(status_code=500).
GetStandardSummary(standard, cloud_provider) ==
    /\ summary' = [code |-> 500, standard |-> standard,
                   cloud_provider |-> cloud_provider, controls |-> {}]
    /\ UNCHANGED <<complianceFindings, complianceSummary>>

\* GET /summary. With a cloud_provider outside the enum, CloudProvider(...) raises
\* ValueError and the handler raises HTTPException(status_code=400) inside the outer
\* try, whose only handler is `except Exception`: the 400 is caught there and
\* answered as HTTPException(status_code=500). With no cloud_provider or one of the
\* enum, the handler goes on to build standards_query and evaluates
\* func.cast(ComplianceFinding.is_compliant, db.Integer) on the Session:
\* AttributeError, answered as 500 by the same handler. No query is executed.
GetComplianceSummary(cloud_provider) ==
    /\ complianceSummary' =
           [code |-> 500, cloud_provider |-> cloud_provider,
            raised |-> IF cloud_provider # ""
                          /\ LowerProvider(cloud_provider) \notin CloudProvider
                       THEN "HTTPException(400)"
                       ELSE "AttributeError",
            summary |-> {}, overall |-> NoOverall]
    /\ UNCHANGED <<complianceFindings, summary>>

SGIdle == sgListing = <<>> /\ sgResult = NotScanned

NSGIdle == nsgListing = <<>> /\ nsgResult = NotScanned

S3Idle == s3Listing = <<>> /\ s3Result = NotScanned

SAIdle == saListing = <<>> /\ saResult = NotScanned

IAMIdle == iamListing = <<>> /\ iamResult = NotScanned

LabelsIdle ==
    /\ hubListing = <<>> /\ hubResult = NotScanned
    /\ scListing = <<>> /\ scResult = NotScanned

GDIdle == gdListing = <<>> /\ gdResult = NotScanned

\* ----------------------------------------------------- the list queries

\* The values of the SeverityLevel enum
SeverityLevel == {"critical", "high", "medium", "low", "info"}

\* s.lower() on the severity inputs
LowerSeverity(s) == IF s = "CRITICAL" THEN "critical" ELSE s

MaxVulnRows == 2

\* The severities of the stored rows
StoredSeverities == {"critical", "medium", "info"}

\* Rows of the vulnerabilities table with cloud_provider = 'aws'
VulnRows ==
    [resource_id : {"i-1", "i-2"}, severity : StoredSeverities,
     status : {"open"}, detected_at : {1, 2}]

\* severity: Optional[List[str]] of GET /vulnerabilities (None and [] are both falsy)
SeverityFilterInputs == {<<>>, <<"CRITICAL">>, <<"info", "urgent?">>}

\* status: Optional[List[str]] of GET /vulnerabilities
StatusFilterInputs == {<<>>, <<"open">>, <<"closed?">>}

\* The database behind DATABASE_URL: the default SQLite file, or a server with
\* native enum types.
Engines == {"sqlite", "postgresql"}

NoResponse ==
    [route |-> "", code |-> 0, valueError |-> FALSE, queried |-> FALSE,
     rows |-> <<>>, engine |-> ""]

QueryIdle == vulnRows = <<>> /\ response = NoResponse

\* A finding is stored (store_vulnerabilities of an earlier scan).
InsertVulnerability(row) ==
    /\ Len(vulnRows) < MaxVulnRows
    /\ vulnRows' = Append(vulnRows, row)
    /\ response' = NoResponse

\* [SeverityLevel(s.lower()) for s in severity] raises ValueError
SeverityValueError(severity) ==
    \E i \in 1..Len(severity) : LowerSeverity(severity[i]) \notin SeverityLevel

\* [VulnerabilityStatus(s.lower()) for s in status] raises ValueError
StatusValueError(status) ==
    \E i \in 1..Len(status) : Lower(status[i]) \notin VulnerabilityStatus

\* db_interface.get_vulnerabilities(cloud_provider, severity, status, ...): the rows
\* whose severity and status are among the given ones, no filter when a list is absent.
get_vulnerabilities(table, severity, status) ==
    LET severities == {LowerSeverity(severity[i]) : i \in 1..Len(severity)}
        statuses == {Lower(status[i]) : i \in 1..Len(status)}
        keep(row) == /\ (severity # <<>> => row.severity \in severities)
                     /\ (status # <<>> => row.status \in statuses)
    IN  SelectSeq(table, keep)

\* GET /vulnerabilities. The HTTPException(status_code=400) of either conversion is
\* raised inside the outer try, whose only handler is `except Exception`:
\* HTTPException is an Exception, so it is caught there and re-raised as
\* HTTPException(status_code=500).
GetVulnerabilities(severity, status) ==
    /\ response' =
           IF SeverityValueError(severity)
              \/ (~SeverityValueError(severity) /\ StatusValueError(status))
           THEN [route |-> "GET /vulnerabilities", code |-> 500, valueError |-> TRUE,
                 queried |-> FALSE, rows |-> <<>>, engine |-> ""]
           ELSE [route |-> "GET /vulnerabilities", code |-> 200, valueError |-> FALSE,
                 queried |-> TRUE,
                 rows |-> get_vulnerabilities(vulnRows, severity, status),
                 engine |-> ""]
    /\ UNCHANGED vulnRows

\* The position of a severity among the values of a text column: without a native
\* enum type the column holds the member as text and ORDER BY compares the text.
TextRank(severity) ==
    CASE severity = "critical" -> 1
      [] severity = "high" -> 2
      [] severity = "info" -> 3
      [] severity = "low" -> 4
      [] severity = "medium" -> 5

\* The position of a severity in the declaration of SeverityLevel, the order of a
\* native enum type.
DeclaredRank(severity) ==
    CASE severity = "critical" -> 1
      [] severity = "high" -> 2
      [] severity = "medium" -> 3
      [] severity = "low" -> 4
      [] severity = "info" -> 5

\* What ORDER BY severity compares
SeverityKey(engine, severity) ==
    IF engine = "sqlite" THEN TextRank(severity) ELSE DeclaredRank(severity)

\* ORDER BY severity, detected_at DESC: severity ascending, then detected_at descending
OrderedBy(rows, engine) ==
    \A j, k \in 1..Len(rows) :
        j < k =>
            \/ SeverityKey(engine, rows[j].severity) < SeverityKey(engine, rows[k].severity)
            \/ /\ rows[j].severity = rows[k].severity
               /\ rows[j].detected_at >= rows[k].detected_at

\* GET /resources/{resource_id}/vulnerabilities: the raw SELECT ... WHERE resource_id =
\* ... ORDER BY severity, detected_at DESC. Rows equal in both keys come in any order.
GetResourceVulnerabilities(resource_id, engine) ==
    LET matching == {i \in 1..Len(vulnRows) : vulnRows[i].resource_id = resource_id}
        n == Cardinality(matching)
    IN  /\ \E order \in [1..n -> matching] :
              /\ \A j, k \in 1..n : j # k => order[j] # order[k]
              /\ OrderedBy([j \in 1..n |-> vulnRows[order[j]]], engine)
              /\ response' =
                     [route |-> "GET /resources/{resource_id}/vulnerabilities",
                      code |-> 200, valueError |-> FALSE, queried |-> TRUE,
                      rows |-> [j \in 1..n |-> vulnRows[order[j]]], engine |-> engine]
        /\ UNCHANGED vulnRows

\* GET /findings of the compliance routes, with the cloud_provider filter. The
\* HTTPException(status_code=400) passes the `except HTTPException: raise` clause.
GetComplianceFindings(cloud_provider) ==
    /\ response' =
           IF cloud_provider # "" /\ LowerProvider(cloud_provider) \notin CloudProvider
           THEN [route |-> "GET /findings", code |-> 400, valueError |-> TRUE,
                 queried |-> FALSE, rows |-> <<>>, engine |-> ""]
           ELSE [route |-> "GET /findings", code |-> 200, valueError |-> FALSE,
                 queried |-> TRUE,
                 rows |-> LET keep(row) ==
                                  cloud_provider # ""
                                  => row.cloud_provider = LowerProvider(cloud_provider)
                          IN  SelectSeq(complianceFindings, keep),
                 engine |-> ""]
    /\ UNCHANGED vulnRows

\* ------------------------------------------------------ AWSAuthenticator

\* Access keys a caller may pass: two that STS accepts and one it rejects
AccessKeys == {"AKIA-one", "AKIA-two", "AKIA-revoked"}

\* The account get_caller_identity reports for a key; "none" when STS rejects the key
\* (ClientError InvalidClientTokenId).
CallerIdentity(access_key) ==
    CASE access_key = "AKIA-one" -> "111111111111"
      [] access_key = "AKIA-two" -> "222222222222"
      [] OTHER -> "none"

\* region arguments: "" stands for None
RegionInputs == {"", "eu-west-1"}

\* Roles a caller may name: one the caller may assume, one it may not
RoleArns == {"arn:aws:iam::111111111111:role/audit", "arn:aws:iam::111111111111:role/denied"}

ServiceNames == {"s3", "ec2"}

\* boto3.Session(...): the credentials it was built with and its region
Session(credentials, region) == [credentials |-> credentials, region |-> region]

NoSession == Session("none", "")

\* __init__(region="us-east-1"). authenticated and keysVerified are history: a call
\* of authenticate_with_keys or assume_role returned, a call of
\* authenticate_with_keys returned.
AwsAuthIdle ==
    /\ awsAuth = [region |-> "us-east-1", session |-> NoSession, sts_client |-> "none",
                  account_id |-> "None", authenticated |-> FALSE, keysVerified |-> FALSE]
    /\ awsCall = [op |-> "__init__", arg |-> "", outcome |-> ""]

\* authenticate_with_keys(access_key, secret_key, region): self.session and
\* self.sts_client are assigned before get_caller_identity verifies the keys; the
\* except clause logs and re-raises and resets nothing.
AuthenticateWithKeys(access_key, region) ==
    LET session == Session(access_key, IF region = "" THEN awsAuth.region ELSE region)
        account == CallerIdentity(access_key)
    IN  IF account # "none"
        THEN /\ awsAuth' = [awsAuth EXCEPT !.session = session, !.sts_client = access_key,
                                           !.account_id = account,
                                           !.authenticated = TRUE, !.keysVerified = TRUE]
             /\ awsCall' = [op |-> "authenticate_with_keys", arg |-> access_key,
                            outcome |-> "session"]
        ELSE /\ awsAuth' = [awsAuth EXCEPT !.session = session, !.sts_client = access_key]
             /\ awsCall' = [op |-> "authenticate_with_keys", arg |-> access_key,
                            outcome |-> "ClientError"]

\* assume_role(role_arn): without an sts client one is made from the session, and
\* without a session from boto3.Session(region_name=self.region), the default
\* credential chain. sts.assume_role succeeds when the client's credentials are
\* accepted and may assume the role; environmentOk says whether the default chain
\* yields accepted credentials.
AssumeRole(role_arn, environmentOk) ==
    LET session == IF awsAuth.sts_client = "none" /\ awsAuth.session = NoSession
                   THEN Session("default", awsAuth.region)
                   ELSE awsAuth.session
        sts == IF awsAuth.sts_client = "none" THEN session.credentials
               ELSE awsAuth.sts_client
        accepted == IF sts = "default" THEN environmentOk ELSE CallerIdentity(sts) # "none"
    IN  IF accepted /\ role_arn = "arn:aws:iam::111111111111:role/audit"
        THEN /\ awsAuth' = [awsAuth EXCEPT !.session = Session("ASIA-temporary", awsAuth.region),
                                           !.sts_client = sts,
                                           !.authenticated = TRUE]
             /\ awsCall' = [op |-> "assume_role", arg |-> role_arn, outcome |-> "credentials"]
        ELSE /\ awsAuth' = [awsAuth EXCEPT !.session = session, !.sts_client = sts]
             /\ awsCall' = [op |-> "assume_role", arg |-> role_arn, outcome |-> "ClientError"]

\* get_account_id()
GetAccountId ==
    /\ awsCall' = [op |-> "get_account_id", arg |-> "", outcome |-> awsAuth.account_id]
    /\ UNCHANGED awsAuth

\* create_client(service_name): `if not self.session: raise ValueError`
AwsCreateClient(service_name) ==
    /\ awsCall' = [op |-> "create_client", arg |-> service_name,
                   outcome |-> IF awsAuth.session = NoSession THEN "ValueError" ELSE "client"]
    /\ UNCHANGED awsAuth

\* create_resource(service_name): `if not self.session: raise ValueError`
AwsCreateResource(service_name) ==
    /\ awsCall' = [op |-> "create_resource", arg |-> service_name,
                   outcome |-> IF awsAuth.session = NoSession THEN "ValueError" ELSE "resource"]
    /\ UNCHANGED awsAuth

\* ---------------------------------------------------- AzureAuthenticator

\* Service principals a caller may pass: one with two subscriptions, one with none,
\* one whose secret the tenant rejects
ClientIds == {"app-two-subscriptions", "app-no-subscription", "app-rejected"}

TenantIds == {"tenant-a"}

\* What the default credential chain of the environment yields
DefaultCredentials == {"default-one-subscription", "default-no-subscription", "default-rejected"}

\* The token request of the credential is rejected: listing the subscriptions
\* raises ClientAuthenticationError.
Rejected(credential) == credential \in {"app-rejected", "default-rejected"}

\* list(SubscriptionClient(credential).subscriptions.list()): the subscription ids
\* of a credential that is not rejected
Subscriptions(credential) ==
    CASE credential = "app-two-subscriptions" -> <<"sub-1", "sub-2">>
      [] credential = "default-one-subscription" -> <<"sub-1">>
      [] OTHER -> <<>>

\* subscription ids a caller may set; "" is an empty string
SubscriptionInputs == {"sub-2", ""}

\* __init__. "None" stands for None; authenticated is history: a call of
\* authenticate_with_service_principal or authenticate_with_default_credentials
\* returned.
AzureAuthIdle ==
    /\ azureAuth = [credential |-> "None", subscription_id |-> "None", tenant_id |-> "None",
                    authenticated |-> FALSE]
    /\ azureCall = [op |-> "__init__", arg |-> "", outcome |-> ""]

\* authenticate_with_service_principal(client_id, client_secret, tenant_id):
\* self.tenant_id and self.credential are assigned before the subscriptions are
\* listed; the except clause logs and re-raises and resets nothing.
AuthenticateWithServicePrincipal(client_id, tenant_id) ==
    LET subscriptions == Subscriptions(client_id)
    IN  /\ azureAuth' =
               IF Rejected(client_id)
               THEN [azureAuth EXCEPT !.tenant_id = tenant_id, !.credential = client_id]
               ELSE [azureAuth EXCEPT !.tenant_id = tenant_id, !.credential = client_id,
                                      !.subscription_id =
                                          IF subscriptions # <<>> THEN subscriptions[1]
                                          ELSE @,
                                      !.authenticated = TRUE]
        /\ azureCall' = [op |-> "authenticate_with_service_principal", arg |-> client_id,
                         outcome |-> IF Rejected(client_id)
                                     THEN "ClientAuthenticationError" ELSE "credential"]

\* authenticate_with_default_credentials(): self.credential is assigned before the
\* subscriptions are listed. The tenant of the first subscription is tenant-a.
AuthenticateWithDefaultCredentials(credential) ==
    LET subscriptions == Subscriptions(credential)
    IN  /\ azureAuth' =
               IF Rejected(credential)
               THEN [azureAuth EXCEPT !.credential = credential]
               ELSE IF subscriptions # <<>>
               THEN [azureAuth EXCEPT !.credential = credential,
                                      !.subscription_id = subscriptions[1],
                                      !.tenant_id = "tenant-a",
                                      !.authenticated = TRUE]
               ELSE [azureAuth EXCEPT !.credential = credential, !.authenticated = TRUE]
        /\ azureCall' = [op |-> "authenticate_with_default_credentials", arg |-> "",
                         outcome |-> IF Rejected(credential)
                                     THEN "ClientAuthenticationError" ELSE "credential"]

\* set_subscription(subscription_id)
SetSubscription(subscription_id) ==
    /\ azureAuth' = [azureAuth EXCEPT !.subscription_id = subscription_id]
    /\ azureCall' = [op |-> "set_subscription", arg |-> subscription_id, outcome |-> "None"]

\* get_credential(): `if not self.credential: raise ValueError`
GetCredential ==
    /\ azureCall' = [op |-> "get_credential", arg |-> "",
                     outcome |-> IF azureAuth.credential = "None" THEN "ValueError"
                                 ELSE "credential"]
    /\ UNCHANGED azureAuth

\* create_client(client_class): the constructor of an SDK client sends nothing
AzureCreateClient ==
    /\ azureCall' = [op |-> "create_client", arg |-> "",
                     outcome |-> IF azureAuth.credential = "None" THEN "ValueError"
                                 ELSE "client"]
    /\ UNCHANGED azureAuth

\* list_subscriptions()
ListSubscriptions ==
    /\ azureCall' = [op |-> "list_subscriptions", arg |-> "",
                     outcome |-> IF azureAuth.credential = "None" THEN "ValueError"
                                 ELSE IF Rejected(azureAuth.credential)
                                 THEN "ClientAuthenticationError"
                                 ELSE "list"]
    /\ UNCHANGED azureAuth

\* list_resource_groups(): `if not self.credential or not self.subscription_id`
ListResourceGroups ==
    /\ azureCall' = [op |-> "list_resource_groups", arg |-> "",
                     outcome |-> IF azureAuth.credential = "None"
                                    \/ azureAuth.subscription_id \in {"None", ""}
                                 THEN "ValueError"
                                 ELSE IF Rejected(azureAuth.credential)
                                 THEN "ClientAuthenticationError"
                                 ELSE "list"]
    /\ UNCHANGED azureAuth

\* ------------------------------------------ scan_all over the detectors

MaxRuns == 2

\* A security group with SSH open to the world
OpenSshGroup ==
    [GroupId |-> "sg-0a1",
     IpPermissions |-> <<[hasPorts |-> TRUE, FromPort |-> 22, ToPort |-> 22,
                          IpRanges |-> <<[CidrIp |-> "0.0.0.0/0"]>>]>>]

\* A bucket without default encryption and without a public access block
OpenBucket ==
    [Name |-> "bucket-a", encryption |-> "ServerSideEncryptionConfigurationNotFoundError",
     publicAccess |-> [answer |-> "NoSuchPublicAccessBlockConfiguration", enabled |-> {}]]

\* A policy that allows every action on every resource
AdminPolicy ==
    [PolicyId |-> "ANPA1", form |-> "list",
     Statement |-> <<[Effect |-> "Allow",
                      Action |-> [kind |-> "scalar", values |-> {"*"}],
                      Resource |-> [kind |-> "scalar", values |-> {"*"}]]>>]

\* A network security group with SSH open to the world
OpenSshNSG ==
    [id |-> 1,
     security_rules |-> <<[access |-> "Allow", direction |-> "Inbound",
                           source_address_prefix |-> "*",
                           destination_port_range |-> [kind |-> "single", a |-> 22, b |-> 22]]>>]

\* A storage account with public blob access, HTTP allowed and blob encryption off
OpenStorageAccount ==
    [id |-> StorageAccountId, allow_blob_public_access |-> TRUE,
     enable_https_traffic_only |-> FALSE, blob |-> "disabled", file |-> "enabled"]

\* A subscription whose only Owner is a service principal
ServicePrincipalOwner ==
    [roleDefinitions |-> {"Owner", "Contributor"},
     assignments |-> <<[role |-> "Owner",
                        principal_id |-> "0a1b2c3d-0000-4000-8000-00000000000a"]>>]

\* The groups whose listing call may raise here
FailingGroups == {{}, {"s3_buckets"}, {"role_assignments"}}

ScanAllIdle == apiErrors = {} /\ runs = <<>>

\* What the provider answers to the scanner of p: the listings its groups read and
\* the groups whose listing call raises.
ProviderResponses(p) ==
    IF p = "aws"
    THEN <<sgListing, s3Listing, iamListing, hubListing, gdListing,
           apiErrors \cap GroupSet("aws")>>
    ELSE <<nsgListing, saListing, scListing, raListing,
           apiErrors \cap GroupSet("azure")>>

\* await self.scan_<group>() / self.fetch_<group>(): the list the group returns; a
\* group whose listing call raises returns [] from its except clause.
GroupFindings(g) ==
    IF g \in apiErrors THEN <<>>
    ELSE CASE g = "security_groups" -> scan_security_groups(sgListing).findings
           [] g = "s3_buckets" -> scan_s3_buckets(s3Listing).findings
           [] g = "iam_policies" -> scan_iam_policies(iamListing).findings
           [] g = "security_hub" -> fetch_security_hub_findings(hubListing)
           [] g = "guardduty" -> fetch_guardduty_findings(gdListing)
           [] g = "network_security_groups" ->
                  scan_network_security_groups(nsgListing).findings
           [] g = "storage_accounts" -> scan_storage_accounts(saListing).findings
           [] g = "security_center" -> fetch_security_center_recommendations(scListing)
           [] g = "role_assignments" -> scan_role_assignments(raListing)

\* Mutant: the list of scan_all outlives the run.
ScanAllStart_Keeps(previous) == previous

\* vulnerabilities = []: a local list, whatever earlier runs returned
ScanAllStart(previous) == <<>>

\* vulnerabilities.extend(await ...) for the groups from the i-th on
RECURSIVE ScanAllFrom(_, _, _)
ScanAllFrom(p, i, acc) ==
    IF i > Len(Groups(p)) THEN acc
    ELSE ScanAllFrom(p, i + 1, acc \o GroupFindings(Groups(p)[i]))

\* scan_all of the scanner of p
scan_all(p, previous) == ScanAllFrom(p, 1, ScanAllStart(previous))

\* What the findings of a run are apart from id and detected_at
RunFields(run) == [k \in 1..Len(run.findings) |-> run.findings[k].fields]

\* One run of scan_all on a new scanner of p. Each Vulnerability is created with
\* id=str(uuid.uuid4()) and detected_at=datetime.utcnow(): the run's number and the
\* position stand for the fresh id, the run's number for the time.
ScanAll(p) ==
    /\ Len(runs) < MaxRuns
    /\ LET previous == IF runs = <<>> THEN <<>> ELSE RunFields(runs[Len(runs)])
           fields == scan_all(p, previous)
           n == Len(runs) + 1
       IN  runs' = Append(runs,
                          [provider |-> p, against |-> ProviderResponses(p),
                           findings |-> [k \in 1..Len(fields) |->
                                            [id |-> <<n, k>>, detected_at |-> n,
                                             fields |-> fields[k]]]])

ServicesIdle == QueryIdle /\ AwsAuthIdle /\ AzureAuthIdle /\ ScanAllIdle

DetectorsIdle ==
    /\ SGIdle /\ NSGIdle /\ S3Idle /\ SAIdle /\ IAMIdle /\ RAIdle
    /\ LabelsIdle /\ GDIdle

Init == PipelineInit /\ DetectorsIdle /\ ComplianceIdle /\ ServicesIdle

\* The scan orchestrator: background scan tasks, from POST /scan to the store
\* call, and cancellation requests while one runs.
Next ==
    \/ (\E p \in Providers : ScanResources(p)) /\ UNCHANGED exceptPipeline
    \/ ScannerInit /\ UNCHANGED exceptPipeline
    \/ ScannerInitRaise /\ UNCHANGED exceptPipeline
    \/ (\E g \in GroupSet("aws") \cup GroupSet("azure") : GroupStart(g)) /\ UNCHANGED exceptPipeline
    \/ (\E n \in 0..MaxPerGroup : GroupReturn(n)) /\ UNCHANGED exceptPipeline
    \/ GroupRaise /\ UNCHANGED exceptPipeline
    \/ ScanAllReturn /\ UNCHANGED exceptPipeline
    \/ StoreResults /\ UNCHANGED exceptPipeline
    \/ StoreResultsRaise /\ UNCHANGED exceptPipeline
    \/ Cancel /\ UNCHANGED exceptPipeline

Spec == Init /\ [][Next]_vars

\* The finding store: background scan tasks, and status updates at any moment
\* between their steps.
NextStore ==
    \/ (\E p \in Providers : ScanResources(p)) /\ UNCHANGED exceptPipeline
    \/ ScannerInit /\ UNCHANGED exceptPipeline
    \/ ScannerInitRaise /\ UNCHANGED exceptPipeline
    \/ (\E g \in GroupSet("aws") \cup GroupSet("azure") : GroupStart(g)) /\ UNCHANGED exceptPipeline
    \/ (\E n \in 0..MaxPerGroup : GroupReturn(n)) /\ UNCHANGED exceptPipeline
    \/ GroupRaise /\ UNCHANGED exceptPipeline
    \/ ScanAllReturn /\ UNCHANGED exceptPipeline
    \/ StoreResults /\ UNCHANGED exceptPipeline
    \/ StoreResultsRaise /\ UNCHANGED exceptPipeline
    \/ (\E id \in Ids, s \in StatusInputs : UpdateVulnerabilityStatus(id, s)) /\ UNCHANGED exceptPipeline

SpecStore == Init /\ [][NextStore]_vars

InitSG == PipelineInit /\ DetectorsIdle /\ ComplianceIdle /\ ServicesIdle

NextSG ==
    \/ \E id \in {"sg-0a1", Missing} :
           CreateSecurityGroup(id) /\ UNCHANGED exceptSG
    \/ \E permission \in ListedPermissions :
           AuthorizeIngress(permission) /\ UNCHANGED exceptSG
    \/ ScanSecurityGroups /\ UNCHANGED exceptSG
    \/ ScanSecurityGroupsApiError /\ UNCHANGED exceptSG

SpecSG == InitSG /\ [][NextSG]_vars

InitNSG == PipelineInit /\ DetectorsIdle /\ ComplianceIdle /\ ServicesIdle

NextNSG ==
    \/ CreateNSG /\ UNCHANGED exceptNSG
    \/ \E rule \in ListedRules :
           CreateSecurityRule(rule) /\ UNCHANGED exceptNSG
    \/ ScanNetworkSecurityGroups /\ UNCHANGED exceptNSG
    \/ ScanNetworkSecurityGroupsApiError /\ UNCHANGED exceptNSG

SpecNSG == InitNSG /\ [][NextNSG]_vars

InitS3 == PipelineInit /\ DetectorsIdle /\ ComplianceIdle /\ ServicesIdle

NextS3 ==
    \/ \E bucket \in Buckets : CreateBucket(bucket) /\ UNCHANGED exceptS3
    \/ ScanS3Buckets /\ UNCHANGED exceptS3
    \/ ScanS3BucketsApiError /\ UNCHANGED exceptS3

SpecS3 == InitS3 /\ [][NextS3]_vars

InitSA == PipelineInit /\ DetectorsIdle /\ ComplianceIdle /\ ServicesIdle

NextSA ==
    \/ \E account \in StorageAccounts : CreateStorageAccount(account) /\ UNCHANGED exceptSA
    \/ ScanStorageAccounts /\ UNCHANGED exceptSA
    \/ ScanStorageAccountsApiError /\ UNCHANGED exceptSA

SpecSA == InitSA /\ [][NextSA]_vars

InitIAM == PipelineInit /\ DetectorsIdle /\ ComplianceIdle /\ ServicesIdle

NextIAM ==
    \/ \E id \in {"ANPA1", Missing} : CreatePolicy(id) /\ UNCHANGED exceptIAM
    \/ \E statement \in Statements :
           CreateSingleStatementPolicy(statement) /\ UNCHANGED exceptIAM
    \/ \E statement \in Statements : AddStatement(statement) /\ UNCHANGED exceptIAM
    \/ ScanIAMPolicies /\ UNCHANGED exceptIAM
    \/ ScanIAMPoliciesApiError /\ UNCHANGED exceptIAM

SpecIAM == InitIAM /\ [][NextIAM]_vars

InitRA == PipelineInit /\ DetectorsIdle /\ ComplianceIdle /\ ServicesIdle

NextRA ==
    \/ \E role_name \in {"Owner", "Contributor"} : DefineRole(role_name) /\ UNCHANGED exceptRA
    \/ \E assignment \in RoleAssignments :
           CreateRoleAssignment(assignment) /\ UNCHANGED exceptRA
    \/ ScanRoleAssignments /\ UNCHANGED exceptRA
    \/ ScanRoleAssignmentsApiError /\ UNCHANGED exceptRA

SpecRA == InitRA /\ [][NextRA]_vars

InitGD == PipelineInit /\ DetectorsIdle /\ ComplianceIdle /\ ServicesIdle

NextGD ==
    \/ \E finding \in GDFindings : GuardDutyFinding(finding) /\ UNCHANGED exceptGD
    \/ FetchGuardDutyFindings /\ UNCHANGED exceptGD
    \/ FetchGuardDutyNotEnabled /\ UNCHANGED exceptGD
    \/ FetchGuardDutyApiError /\ UNCHANGED exceptGD

SpecGD == InitGD /\ [][NextGD]_vars

InitLabels == PipelineInit /\ DetectorsIdle /\ ComplianceIdle /\ ServicesIdle

NextLabels ==
    \/ \E finding \in HubFindings : SecurityHubFinding(finding) /\ UNCHANGED exceptLabels
    \/ FetchSecurityHubFindings /\ UNCHANGED exceptLabels
    \/ FetchSecurityHubApiError /\ UNCHANGED exceptLabels
    \/ \E assessment \in Assessments :
           SecurityCenterAssessment(assessment) /\ UNCHANGED exceptLabels
    \/ FetchSecurityCenterRecommendations /\ UNCHANGED exceptLabels
    \/ FetchSecurityCenterApiError /\ UNCHANGED exceptLabels

SpecLabels == InitLabels /\ [][NextLabels]_vars

InitCompliance == PipelineInit /\ DetectorsIdle /\ ComplianceIdle /\ ServicesIdle

NextCompliance ==
    \/ \E row \in ComplianceRows : InsertComplianceFinding(row) /\ UNCHANGED exceptCompliance
    \/ \E standard \in StandardInputs, cloud_provider \in CloudProviderInputs :
           GetStandardSummary(standard, cloud_provider) /\ UNCHANGED exceptCompliance
    \/ \E cloud_provider \in CloudProviderInputs :
           GetComplianceSummary(cloud_provider) /\ UNCHANGED exceptCompliance

SpecCompliance == InitCompliance /\ [][NextCompliance]_vars

\* The compliance_findings table as earlier evaluations left it when the queries start
QueryComplianceTables ==
    {<<>>,
     <<[standard |-> "CIS", control_id |-> "1.1", is_compliant |-> TRUE,
        cloud_provider |-> "aws"],
       [standard |-> "CIS", control_id |-> "1.2", is_compliant |-> FALSE,
        cloud_provider |-> "azure"]>>}

\* The cloud_provider values the two summary routes are asked with here
SummaryProviderInputs == {"aws", "gcp?"}

InitQuery ==
    /\ PipelineInit /\ DetectorsIdle /\ ServicesIdle
    /\ complianceFindings \in QueryComplianceTables
    /\ summary = NoSummary
    /\ complianceSummary = NoComplianceSummary

\* The caller-facing queries over the stored findings
NextQuery ==
    \/ \E row \in VulnRows : InsertVulnerability(row) /\ UNCHANGED exceptQuery
    \/ \E severity \in SeverityFilterInputs, status \in StatusFilterInputs :
           GetVulnerabilities(severity, status) /\ UNCHANGED exceptQuery
    \/ \E resource_id \in {"i-1", "i-2"}, engine \in Engines :
           GetResourceVulnerabilities(resource_id, engine) /\ UNCHANGED exceptQuery
    \/ \E cloud_provider \in CloudProviderInputs :
           GetComplianceFindings(cloud_provider) /\ UNCHANGED exceptQuery
    \/ \E cloud_provider \in SummaryProviderInputs :
           GetStandardSummary("CIS", cloud_provider) /\ UNCHANGED exceptCompliance
    \/ \E cloud_provider \in SummaryProviderInputs :
           GetComplianceSummary(cloud_provider) /\ UNCHANGED exceptCompliance

SpecQuery == InitQuery /\ [][NextQuery]_vars

InitAwsAuth == PipelineInit /\ DetectorsIdle /\ ComplianceIdle /\ ServicesIdle

\* Any sequence of calls on one AWSAuthenticator
NextAwsAuth ==
    \/ \E access_key \in AccessKeys, region \in RegionInputs :
           AuthenticateWithKeys(access_key, region) /\ UNCHANGED exceptAwsAuth
    \/ \E role_arn \in RoleArns, environmentOk \in BOOLEAN :
           AssumeRole(role_arn, environmentOk) /\ UNCHANGED exceptAwsAuth
    \/ GetAccountId /\ UNCHANGED exceptAwsAuth
    \/ \E service_name \in ServiceNames :
           AwsCreateClient(service_name) /\ UNCHANGED exceptAwsAuth
    \/ \E service_name \in ServiceNames :
           AwsCreateResource(service_name) /\ UNCHANGED exceptAwsAuth

SpecAwsAuth == InitAwsAuth /\ [][NextAwsAuth]_vars

InitAzureAuth == PipelineInit /\ DetectorsIdle /\ ComplianceIdle /\ ServicesIdle

\* Any sequence of calls on one AzureAuthenticator
NextAzureAuth ==
    \/ \E client_id \in ClientIds, tenant_id \in TenantIds :
           AuthenticateWithServicePrincipal(client_id, tenant_id) /\ UNCHANGED exceptAzureAuth
    \/ \E credential \in DefaultCredentials :
           AuthenticateWithDefaultCredentials(credential) /\ UNCHANGED exceptAzureAuth
    \/ \E subscription_id \in SubscriptionInputs :
           SetSubscription(subscription_id) /\ UNCHANGED exceptAzureAuth
    \/ GetCredential /\ UNCHANGED exceptAzureAuth
    \/ AzureCreateClient /\ UNCHANGED exceptAzureAuth
    \/ ListSubscriptions /\ UNCHANGED exceptAzureAuth
    \/ ListResourceGroups /\ UNCHANGED exceptAzureAuth

SpecAzureAuth == InitAzureAuth /\ [][NextAzureAuth]_vars

\* The resources of the two clouds when the scans start, and the listing calls that
\* fail
InitScanAll ==
    /\ PipelineInit /\ ComplianceIdle /\ QueryIdle /\ AwsAuthIdle /\ AzureAuthIdle
    /\ runs = <<>>
    /\ apiErrors \in FailingGroups
    /\ sgListing \in {<<>>, <<OpenSshGroup>>} /\ sgResult = NotScanned
    /\ s3Listing \in {<<>>, <<OpenBucket>>} /\ s3Result = NotScanned
    /\ iamListing \in {<<>>, <<AdminPolicy>>} /\ iamResult = NotScanned
    /\ hubListing \in {<<>>, <<[hasSeverity |-> TRUE, Label |-> "HIGH"]>>}
    /\ hubResult = NotScanned
    /\ gdListing \in {<<>>, <<[hasSeverity |-> TRUE, Severity |-> 70]>>}
    /\ gdResult = NotScanned
    /\ nsgListing \in {<<>>, <<OpenSshNSG>>} /\ nsgResult = NotScanned
    /\ saListing \in {<<>>, <<OpenStorageAccount>>} /\ saResult = NotScanned
    /\ scListing \in {<<>>, <<[code |-> "Unhealthy", severity |-> "High"]>>}
    /\ scResult = NotScanned
    /\ raListing \in {[roleDefinitions |-> {}, assignments |-> <<>>], ServicePrincipalOwner}
    /\ raResult = NotScanned

\* Scans of both providers, with a bucket or a storage account created in between
NextScanAll ==
    \/ \E p \in Providers : ScanAll(p) /\ UNCHANGED exceptScanAll
    \/ CreateBucket(OpenBucket) /\ UNCHANGED exceptS3
    \/ CreateStorageAccount(OpenStorageAccount) /\ UNCHANGED exceptSA

SpecScanAll == InitScanAll /\ [][NextScanAll]_vars

\* ------------------------------------------------------------------ claims

\* C1: in scan_all (AWS and Azure) a group that fails contributes zero findings, no
\* exception leaves scan_all, and the returned list holds every finding of every
\* group that succeeded.
C1_FailureIsolation ==
    /\ taskError # "scan_all"
    /\ pc = "scan" => vulnerabilities = produced
    /\ pc = "store" =>
           /\ ret = produced
           /\ \A i \in 1..Len(ret) : ret[i].group \notin failed

\* C1 witness: scan_all returned a finding of a group that ran after a failed group.
C1_Witness ==
    /\ pc = "store"
    /\ \E g \in failed : \E i \in 1..Len(ret) :
           GroupIndex(provider, g) < GroupIndex(provider, ret[i].group)

\* C2: when group A fails and group B succeeds, the result returned by scan_all holds
\* B's findings and an entry recorded for group A, so that a failed group differs in
\* the result from a group that ran and found nothing.
C2_ErrorEntryForFailedGroup ==
    pc = "store" =>
        /\ \A k \in 1..Len(produced) : \E i \in 1..Len(ret) : ret[i] = produced[k]
        /\ \A g \in failed : \E i \in 1..Len(ret) : ret[i].group = g

\* C3: within one scan_all run the start of a group never waits on the completion of
\* another group: every group that has not begun can begin its provider calls now.
C3_GroupStartNeverWaits ==
    pc = "scan" =>
        \A g \in GroupSet(provider) : ~Started(g) => ENABLED GroupStart(g)

\* C4: while a scan runs nothing is returned to the caller and nothing of it is in the
\* store; the store grows only in the one store call made after scan_all returned
\* with every group completed or failed, and it then receives the whole batch.
C4_NoPartialResult ==
    /\ [](pc \in {"pending", "scan"} =>
             /\ ret = <<>>
             /\ \A i \in 1..Len(store) : store[i].id < scanFirstId)
    /\ [][Len(store') # Len(store) =>
             /\ pc = "store"
             /\ cur = Len(Groups(provider)) + 1
             /\ ret = produced
             /\ store' = store \o ret
             /\ pc' = "idle"]_vars

\* C4 witness: a batch with findings of two groups of one scan is in the store.
C4_Witness ==
    /\ pc = "idle"
    /\ Len(store) >= 2
    /\ store[1].batch = store[2].batch
    /\ store[1].group # store[2].group

\* C5: a scan cancelled while groups are in flight returns the findings of the groups
\* that had completed when the cancellation was requested (with a cancellation marker).
C5_CancelReturnsCompleted ==
    (pc = "store" /\ cancelRequested) =>
        ret = SelectSeq(produced, LAMBDA f : f.group \in doneAtCancel)

\* C6: the status of a stored finding changes only in an update_vulnerability_status
\* step; every other step (a scan and its store call included) keeps each stored
\* finding in place with its status.
C6_StatusOnlyByUpdate ==
    [][(\E i \in 1..Len(store) :
            \/ i > Len(store')
            \/ store'[i].id # store[i].id
            \/ store'[i].status # store[i].status)
        => \E id \in Ids, s \in StatusInputs : UpdateVulnerabilityStatus(id, s)]_vars

\* C6 witness: a second scan's batch was stored next to a finding of the first scan
\* that had been resolved before.
C6_Witness ==
    /\ pc = "idle"
    /\ \E i, j \in 1..Len(store) :
           /\ store[i].batch < store[j].batch
           /\ store[i].status = "resolved"

\* The places (group, permission, ip_range) of a security-group listing.
SGPlaces(listing) ==
    {<<si, pi, ri>> \in (1..MaxSGs) \X (1..MaxPerms) \X (1..MaxRanges) :
        /\ si <= Len(listing)
        /\ pi <= Len(listing[si].IpPermissions)
        /\ ri <= Len(listing[si].IpPermissions[pi].IpRanges)}

SGOpenPlace(listing, pl) ==
    listing[pl[1]].IpPermissions[pl[2]].IpRanges[pl[3]].CidrIp = "0.0.0.0/0"

\* The findings of a result created for one place of the listing.
SGFindingsAt(findings, pl) ==
    {k \in 1..Len(findings) :
        findings[k].sg = pl[1] /\ findings[k].perm = pl[2] /\ findings[k].range = pl[3]}

\* C7: AWS open-ingress rule: every ip_range with CidrIp 0.0.0.0/0 of every ingress
\* permission gets exactly one SecurityGroup finding, CRITICAL when FromPort..ToPort
\* meets {22, 3389, 1433, 3306, 5432} and MEDIUM otherwise; any other CIDR gets none.
\* (Stated for listings whose groups are well formed and whose permissions carry ports.)
C7_AwsOpenIngress ==
    (/\ sgResult.state = "returned"
     /\ ~sgResult.raised
     /\ \A pl \in SGPlaces(sgListing) : sgListing[pl[1]].IpPermissions[pl[2]].hasPorts)
    => \A pl \in SGPlaces(sgListing) :
           LET permission == sgListing[pl[1]].IpPermissions[pl[2]]
               at == SGFindingsAt(sgResult.findings, pl)
           IN  IF SGOpenPlace(sgListing, pl)
               THEN /\ Cardinality(at) = 1
                    /\ \A k \in at :
                           /\ sgResult.findings[k].resource_type = "SecurityGroup"
                           /\ sgResult.findings[k].severity =
                                  IF \E port \in AdminPorts :
                                         /\ permission.FromPort <= port
                                         /\ port <= permission.ToPort
                                  THEN "critical"
                                  ELSE "medium"
               ELSE at = {}

\* C9: an open-ingress permission that carries no port range does not make the
\* detector raise and is evaluated as covering all ports: its finding is emitted
\* with the severity of a rule that includes the administrative ports (CRITICAL).
C9_NoPortRangeIsAllPorts ==
    (/\ sgResult.state = "returned"
     /\ ~sgResult.apiError
     /\ \A si \in 1..Len(sgListing) : sgListing[si].GroupId # Missing)
    => /\ ~sgResult.raised
       /\ \A pl \in SGPlaces(sgListing) :
              (SGOpenPlace(sgListing, pl)
               /\ ~sgListing[pl[1]].IpPermissions[pl[2]].hasPorts)
              => \E k \in SGFindingsAt(sgResult.findings, pl) :
                     sgResult.findings[k].severity = "critical"

\* C10: a resource of unexpected shape in a group's listing is skipped alone: the
\* group still returns the findings of every other, well-formed resource of the
\* listing, those evaluated before the malformed one included.
C10_MalformedItemSkipped ==
    (sgResult.state = "returned" /\ ~sgResult.apiError)
    => \A pl \in SGPlaces(sgListing) :
           (sgListing[pl[1]].GroupId # Missing /\ SGOpenPlace(sgListing, pl))
           => SGFindingsAt(sgResult.findings, pl) # {}

\* The places (group, rule) of an NSG listing.
NSGPlaces(listing) ==
    {<<ni, ri>> \in (1..MaxNSGs) \X (1..MaxRules) :
        ni <= Len(listing) /\ ri <= Len(listing[ni].security_rules)}

NSGFindingsAt(findings, pl) ==
    {k \in 1..Len(findings) : findings[k].nsg = pl[1] /\ findings[k].rule = pl[2]}

\* Every open rule of the listing carries a destination_port_range text.
NSGPortRangesPresent(listing) ==
    \A pl \in NSGPlaces(listing) :
        LET rule == listing[pl[1]].security_rules[pl[2]]
        IN  NSGRuleOpen(rule) => rule.destination_port_range.kind # "none"

\* The destination port set of a rule meets the administrative ports.
MeetsAdminPorts(port_range) ==
    \/ port_range.kind = "star"
    \/ port_range.kind = "single" /\ port_range.a \in AdminPorts
    \/ port_range.kind = "range"
       /\ \E port \in AdminPorts : port_range.a <= port /\ port <= port_range.b

\* What the listing's findings are when each open rule gets exactly one
\* NetworkSecurityGroup finding of severity critical(port_range) or HIGH, and no
\* other rule gets any.
NSGOneFindingPerOpenRule(critical(_)) ==
    \A pl \in NSGPlaces(nsgListing) :
        LET rule == nsgListing[pl[1]].security_rules[pl[2]]
            at == NSGFindingsAt(nsgResult.findings, pl)
        IN  IF NSGRuleOpen(rule)
            THEN /\ Cardinality(at) = 1
                 /\ \A k \in at :
                        /\ nsgResult.findings[k].resource_type = "NetworkSecurityGroup"
                        /\ nsgResult.findings[k].severity =
                               IF critical(rule.destination_port_range)
                               THEN "critical" ELSE "high"
            ELSE at = {}

CriticalAsAmended(port_range) ==
    \/ port_range.kind = "star"
    \/ port_range.kind = "single" /\ port_range.a \in AdminPorts
    \/ port_range.kind = "range"
       /\ \E port \in {22, 3389} : port_range.a <= port /\ port <= port_range.b

S3FindingsAt(findings, bi, check) ==
    {k \in 1..Len(findings) : findings[k].bucket = bi /\ findings[k].check = check}

\* C11: AWS storage rule: every listed bucket without default server-side encryption
\* gets one HIGH finding; every listed bucket that does not have all four
\* public-access-block settings enabled gets one HIGH finding, a bucket with no
\* public-access-block configuration at all included; a bucket with encryption and
\* all four settings enabled gets no finding.
C11_S3Checks ==
    (s3Result.state = "returned" /\ ~s3Result.raised)
    => \A bi \in 1..Len(s3Listing) :
           LET bucket == s3Listing[bi]
               enc == S3FindingsAt(s3Result.findings, bi, "encryption")
               pub == S3FindingsAt(s3Result.findings, bi, "public_access")
           IN  /\ Cardinality(enc) =
                      IF bucket.encryption = "ServerSideEncryptionConfigurationNotFoundError"
                      THEN 1 ELSE 0
               /\ Cardinality(pub) =
                      IF bucket.publicAccess.enabled # PublicAccessBlockSettings
                      THEN 1 ELSE 0
               /\ \A k \in enc \cup pub : s3Result.findings[k].severity = "high"

\* The findings of a result created for one storage account.
SAFindingsAt(findings, ai) == {k \in 1..Len(findings) : findings[k].account = ai}

\* C12: Azure storage encryption rule: an account with encryption enabled for neither
\* the blob nor the file service gets an encryption finding of severity HIGH, an
\* account with encryption enabled for exactly one of the two gets one of severity
\* MEDIUM, and the two cases never get the same severity.
C12_EncryptionSeverity ==
    (saResult.state = "returned" /\ ~saResult.raised)
    => \A ai \in 1..Len(saListing) :
           LET account == saListing[ai]
               enc == {k \in SAFindingsAt(saResult.findings, ai) :
                          saResult.findings[k].check = "encryption"}
           IN  /\ (account.blob = "disabled" /\ account.file = "disabled")
                  => /\ enc # {}
                     /\ \A k \in enc : saResult.findings[k].severity = "high"
               /\ ((account.blob = "enabled" /\ account.file = "disabled")
                   \/ (account.blob = "disabled" /\ account.file = "enabled"))
                  => /\ enc # {}
                     /\ \A k \in enc : saResult.findings[k].severity = "medium"

\* The checks of the loop body an account violates.
SAViolatedChecks(account) ==
    {c \in {"public_blob_access", "non_https", "encryption"} :
        \/ c = "public_blob_access" /\ account.allow_blob_public_access
        \/ c = "non_https" /\ ~account.enable_https_traffic_only
        \/ c = "encryption" /\ (account.blob # "enabled" \/ account.file # "enabled")}

IAMPlaces(listing) ==
    {<<pi, si>> \in (1..MaxPolicies) \X (1..MaxStatements) :
        pi <= Len(listing) /\ si <= Len(listing[pi].Statement)}

IAMFindingsAt(findings, pl) ==
    {k \in 1..Len(findings) : findings[k].policy = pl[1] /\ findings[k].statement = pl[2]}

\* Action or Resource contains `*`: the scalar `*`, or a list with `*` as a member.
ContainsStar(x) == x.kind # "none" /\ "*" \in x.values

\* C14: identity-policy rule: every statement of every listed policy document gets
\* exactly one CRITICAL finding when its Effect is Allow and its Action and Resource
\* each contain `*` (as a scalar or as a member of a list), and no finding otherwise,
\* whether the document's Statement is a list of statements or one statement object.
C14_AllowAllStatement ==
    (iamResult.state = "returned" /\ ~iamResult.raised)
    => \A pl \in IAMPlaces(iamListing) :
           LET statement == iamListing[pl[1]].Statement[pl[2]]
               at == IAMFindingsAt(iamResult.findings, pl)
           IN  IF /\ statement.Effect = "Allow"
                  /\ ContainsStar(statement.Action)
                  /\ ContainsStar(statement.Resource)
               THEN /\ Cardinality(at) = 1
                    /\ \A k \in at : iamResult.findings[k].severity = "critical"
               ELSE at = {}

\* The Owner assignments of the subscription, and those held by a machine identity
\* (principal id of 36 characters).
OwnerPlaces(listing) ==
    {ai \in 1..Len(listing.assignments) : listing.assignments[ai].role = "Owner"}

MachineOwnerPlaces(listing) ==
    {ai \in OwnerPlaces(listing) :
        listing.assignments[ai].principal_id = "0a1b2c3d-0000-4000-8000-00000000000a"}

\* C15: privileged-role rule: with n the number of Owner role assignments of the
\* subscription, the group emits no finding when n <= 3; when n > 3 it emits exactly
\* one Subscription HIGH finding for the count and exactly one more HIGH finding for
\* each Owner assignment held by a machine identity, and nothing else.
C15_OwnerThreshold ==
    (raResult.state = "returned" /\ ~raResult.raised)
    => LET n == Cardinality(OwnerPlaces(raListing))
           fs == raResult.findings
       IN  IF n <= 3 THEN fs = <<>>
           ELSE /\ Cardinality({k \in 1..Len(fs) : fs[k].resource_type = "Subscription"}) = 1
                /\ \A ai \in MachineOwnerPlaces(raListing) :
                       Cardinality({k \in 1..Len(fs) :
                           fs[k].resource_type = "RoleAssignment"
                           /\ fs[k].assignment = ai}) = 1
                /\ Len(fs) = 1 + Cardinality(MachineOwnerPlaces(raListing))
                /\ \A k \in 1..Len(fs) : fs[k].severity = "high"

\* The canonical severities, and their rank (INFO lowest).
SeverityLevels == {"critical", "high", "medium", "low", "info"}

SeverityRank(severity) ==
    CASE severity = "critical" -> 4
      [] severity = "high" -> 3
      [] severity = "medium" -> 2
      [] severity = "low" -> 1
      [] OTHER -> 0

\* C16: numeric severity normalization (GuardDuty) is total and follows descending
\* inclusive thresholds: score >= 7.0 is CRITICAL, else >= 5.0 HIGH, else >= 3.0 MEDIUM,
\* else >= 1.0 LOW, else INFO (every score below 1.0 and a missing score included);
\* every score maps to exactly one level and the mapping is monotone in the score.
\* (Scores in tenths.)
C16_NumericSeverity ==
    (gdResult.state = "returned" /\ ~gdResult.apiError)
    => /\ Len(gdResult.findings) = Len(gdListing)
       /\ \A k \in 1..Len(gdResult.findings) :
              LET source == gdListing[gdResult.findings[k].finding]
                  level == gdResult.findings[k].severity
              IN  /\ level \in SeverityLevels
                  /\ ~source.hasSeverity => level = "info"
                  /\ source.hasSeverity =>
                        /\ level = "critical" <=> source.Severity >= 70
                        /\ level = "high" <=> source.Severity >= 50 /\ source.Severity < 70
                        /\ level = "medium" <=> source.Severity >= 30 /\ source.Severity < 50
                        /\ level = "low" <=> source.Severity >= 10 /\ source.Severity < 30
                        /\ level = "info" <=> source.Severity < 10
       /\ \A j, k \in 1..Len(gdResult.findings) :
              LET sj == gdListing[gdResult.findings[j].finding]
                  sk == gdListing[gdResult.findings[k].finding]
              IN  (sj.hasSeverity /\ sk.hasSeverity /\ sj.Severity <= sk.Severity)
                  => SeverityRank(gdResult.findings[j].severity)
                         <= SeverityRank(gdResult.findings[k].severity)

\* A fetch that normalized a score on a threshold (7.0, CRITICAL) and a finding
\* without a score (INFO).
C16_Witness ==
    /\ gdResult.state = "returned" /\ ~gdResult.apiError
    /\ Len(gdListing) = 2
    /\ gdListing[1].hasSeverity /\ gdListing[1].Severity = 70
    /\ ~gdListing[2].hasSeverity
    /\ gdResult.findings[1].severity = "critical"
    /\ gdResult.findings[2].severity = "info"

\* A label with its letters in upper case (labels of the listings).
UpperCase(label) ==
    CASE label = "high" -> "HIGH"
      [] label = "High" -> "HIGH"
      [] label = "Critical" -> "CRITICAL"
      [] label = "Medium" -> "MEDIUM"
      [] label = "Low" -> "LOW"
      [] OTHER -> label

\* C17: categorical severity normalization is case-insensitive: for the Security Hub
\* vocabulary and for the Security Center vocabulary, two labels that differ only in
\* letter case map to the same canonical severity.
C17_CaseInsensitiveLabels ==
    /\ (hubResult.state = "returned" /\ ~hubResult.apiError)
       => \A j, k \in 1..Len(hubResult.findings) :
              LET fj == hubListing[hubResult.findings[j].finding]
                  fk == hubListing[hubResult.findings[k].finding]
              IN  (fj.Label # Missing /\ fk.Label # Missing
                   /\ UpperCase(fj.Label) = UpperCase(fk.Label))
                  => hubResult.findings[j].severity = hubResult.findings[k].severity
    /\ (scResult.state = "returned" /\ ~scResult.apiError)
       => \A j, k \in 1..Len(scResult.findings) :
              LET aj == scListing[scResult.findings[j].assessment]
                  ak == scListing[scResult.findings[k].assessment]
              IN  (aj.severity # "None" /\ ak.severity # "None"
                   /\ UpperCase(aj.severity) = UpperCase(ak.severity))
                  => scResult.findings[j].severity = scResult.findings[k].severity

\* The two vocabularies, letter case ignored.
HubVocabulary == {"CRITICAL", "HIGH", "MEDIUM", "LOW", "INFORMATIONAL"}

SCVocabulary == {"HIGH", "MEDIUM", "LOW"}

\* C18: categorical severity normalization is total with a per-source default: a
\* Security Hub finding whose label is missing or outside the vocabulary is LOW, an
\* unhealthy Security Center assessment whose severity is missing or outside the
\* vocabulary is MEDIUM, an unknown label is never CRITICAL, and neither fetch raises
\* on such a label.
C18_PerSourceDefault ==
    /\ hubResult.state = "returned"
       => /\ ~hubResult.apiError =>
                 ~hubResult.raised /\ Len(hubResult.findings) = Len(hubListing)
          /\ \A k \in 1..Len(hubResult.findings) :
                 LET source == hubListing[hubResult.findings[k].finding]
                 IN  /\ hubResult.findings[k].severity \in SeverityLevels
                     /\ UpperCase(source.Label) \notin HubVocabulary
                        => hubResult.findings[k].severity = "low"
    /\ scResult.state = "returned"
       => /\ ~scResult.apiError =>
                 /\ ~scResult.raised
                 /\ \A ai \in 1..Len(scListing) :
                        scListing[ai].code = "Unhealthy"
                        => \E k \in 1..Len(scResult.findings) :
                               scResult.findings[k].assessment = ai
          /\ \A k \in 1..Len(scResult.findings) :
                 LET source == scListing[scResult.findings[k].assessment]
                 IN  /\ scResult.findings[k].severity \in SeverityLevels
                     /\ UpperCase(source.severity) \notin SCVocabulary
                        => scResult.findings[k].severity = "medium"

\* Both fetches returned; Security Hub held a finding with a label outside the
\* vocabulary (or none), Security Center an unhealthy assessment with a severity
\* outside the vocabulary (or none).
C18_Witness ==
    /\ hubResult.state = "returned" /\ ~hubResult.apiError
    /\ scResult.state = "returned" /\ ~scResult.apiError
    /\ Len(hubListing) = 1 /\ Len(scListing) = 1
    /\ UpperCase(hubListing[1].Label) \notin HubVocabulary
    /\ scListing[1].code = "Unhealthy"
    /\ UpperCase(scListing[1].severity) \notin SCVocabulary
    /\ hubResult.findings[1].severity = "low"
    /\ scResult.findings[1].severity = "medium"

\* C19: a finding carries a cvss_score if and only if its source finding carried a
\* numeric score: a GuardDuty finding with a Severity value carries cvss_score equal
\* to that value; a GuardDuty finding without a Severity field carries none (as do
\* the findings of every group whose source has no numeric score).
C19_CvssOnlyFromNumericScore ==
    (gdResult.state = "returned" /\ ~gdResult.apiError)
    => \A k \in 1..Len(gdResult.findings) :
           LET source == gdListing[gdResult.findings[k].finding]
           IN  IF source.hasSeverity
               THEN /\ "cvss_score" \in DOMAIN gdResult.findings[k]
                    /\ gdResult.findings[k].cvss_score = source.Severity
               ELSE "cvss_score" \notin DOMAIN gdResult.findings[k]

\* The rows a summary of `standard` with the optional provider filter is about.
SummaryRows(standard, cloud_provider) ==
    {i \in 1..Len(complianceFindings) :
        /\ complianceFindings[i].standard = standard
        /\ cloud_provider # "" => complianceFindings[i].cloud_provider = cloud_provider}

\* compliant / total * 100 rounded to 2 decimals, in hundredths of a percent
Percentage(compliant, total) ==
    IF total = 0 THEN 0 ELSE (2 * compliant * 10000 + total) \div (2 * total)

\* The per-control entries the claim states for a request.
ExpectedControls(standard, cloud_provider) ==
    LET rows == SummaryRows(standard, cloud_provider)
        of(control_id) == {i \in rows : complianceFindings[i].control_id = control_id}
        ok(control_id) == {i \in of(control_id) : complianceFindings[i].is_compliant}
    IN  {[control_id |-> c,
          total_resources |-> Cardinality(of(c)),
          compliant_resources |-> Cardinality(ok(c)),
          compliance_percentage |-> Percentage(Cardinality(ok(c)), Cardinality(of(c)))] :
            c \in {complianceFindings[i].control_id : i \in rows}}

\* C20: per-control compliance aggregation (standard summary): for a standard and an
\* optional provider filter, the summary lists for each control its total_resources
\* (the ComplianceFindings with that standard and control_id), its compliant_resources
\* (those with is_compliant = true) and compliance_percentage = compliant/total*100
\* rounded to 2 decimals; one compliant and one non-compliant finding for CIS 1.1 give
\* total 2, compliant 1, percentage 50.0.
C20_PerControlAggregation ==
    (summary.code # 0 /\ summary.cloud_provider \in {"", "aws", "azure"})
    => /\ summary.code = 200
       /\ summary.controls = ExpectedControls(summary.standard, summary.cloud_provider)

\* The rows a summary over all standards with the optional provider filter is about.
FilteredRows(cloud_provider) ==
    {i \in 1..Len(complianceFindings) :
        cloud_provider # "" =>
            complianceFindings[i].cloud_provider = LowerProvider(cloud_provider)}

\* The per-standard entries of GET /summary for a filter, as the contract states them.
ExpectedStandards(cloud_provider) ==
    LET rows == FilteredRows(cloud_provider)
        of(standard) == {i \in rows : complianceFindings[i].standard = standard}
        ok(standard) == {i \in of(standard) : complianceFindings[i].is_compliant}
    IN  {[standard |-> st,
          total_controls |-> Cardinality(of(st)),
          compliant_controls |-> Cardinality(ok(st)),
          compliance_percentage |-> Percentage(Cardinality(ok(st)), Cardinality(of(st)))] :
            st \in {complianceFindings[i].standard : i \in rows}}

\* C21: for any stored ComplianceFindings and any filter the compliance summary
\* operations return, at every granularity, compliant <= total and a percentage in
\* 0..100; for an empty or fully filtered-out input they return total 0, compliant 0,
\* percentage 0 as a normal result, never an error. (Percentages in hundredths.)
C21_SummaryBoundsAndEmpty ==
    /\ (complianceSummary.code # 0
        /\ (complianceSummary.cloud_provider = ""
            \/ LowerProvider(complianceSummary.cloud_provider) \in CloudProvider))
       => /\ complianceSummary.code = 200
          /\ \A e \in complianceSummary.summary :
                 /\ e.compliant_controls <= e.total_controls
                 /\ e.compliance_percentage \in 0..10000
          /\ complianceSummary.overall.compliant_controls
                 <= complianceSummary.overall.total_controls
          /\ complianceSummary.overall.compliance_percentage \in 0..10000
          /\ FilteredRows(complianceSummary.cloud_provider) = {}
             => complianceSummary.overall = NoOverall
    /\ (summary.code # 0
        /\ (summary.cloud_provider = ""
            \/ LowerProvider(summary.cloud_provider) \in CloudProvider))
       => /\ summary.code = 200
          /\ \A e \in summary.controls :
                 /\ e.compliant_resources <= e.total_resources
                 /\ e.compliance_percentage \in 0..10000

\* The sum of a field over a set of summary entries.
RECURSIVE SumOf(_, _)
SumOf(entries, field) ==
    IF entries = {} THEN 0
    ELSE LET e == CHOOSE x \in entries : TRUE
         IN  e[field] + SumOf(entries \ {e}, field)

\* C22: in the compliance summary the overall totals are the sums of the per-standard
\* values over exactly the standards present in the filtered set, the overall
\* percentage is computed from those sums, and each per-standard total and compliant
\* count is the sum over that standard's controls under the same provider filter.
C22_OverallIsSumOfStandards ==
    (complianceSummary.code # 0
     /\ (complianceSummary.cloud_provider = ""
         \/ LowerProvider(complianceSummary.cloud_provider) \in CloudProvider))
    => /\ complianceSummary.code = 200
       /\ complianceSummary.summary = ExpectedStandards(complianceSummary.cloud_provider)
       /\ complianceSummary.overall.total_controls =
              SumOf(complianceSummary.summary, "total_controls")
       /\ complianceSummary.overall.compliant_controls =
              SumOf(complianceSummary.summary, "compliant_controls")
       /\ complianceSummary.overall.compliance_percentage =
              Percentage(complianceSummary.overall.compliant_controls,
                         complianceSummary.overall.total_controls)

\* A cloud_provider value given and outside the CloudProvider enum
OutsideCloudProvider(cloud_provider) ==
    cloud_provider # "" /\ LowerProvider(cloud_provider) \notin CloudProvider

\* C23: on every caller-facing query with an enum-valued filter (severity or status
\* on the vulnerability query, cloud_provider on the compliance findings, the
\* compliance summary and the per-standard summary) a value outside the enum is
\* answered with HTTP 400, never 500, and the store is not queried for that request.
C23_InvalidFilterRejected ==
    /\ response.valueError => (response.code = 400 /\ ~response.queried)
    /\ (summary.code # 0 /\ OutsideCloudProvider(summary.cloud_provider))
       => summary.code = 400
    /\ (complianceSummary.code # 0 /\ OutsideCloudProvider(complianceSummary.cloud_provider))
       => complianceSummary.code = 400

\* C25: the findings of a resource are returned sorted by severity descending in the
\* canonical order CRITICAL > HIGH > MEDIUM > LOW > INFO and, among equal
\* severities, by detected_at descending.
C25_SortedBySeverityThenDate ==
    (response.route = "GET /resources/{resource_id}/vulnerabilities" /\ response.code = 200)
    => \A j, k \in 1..Len(response.rows) :
           j < k =>
               \/ SeverityRank(response.rows[j].severity)
                      > SeverityRank(response.rows[k].severity)
               \/ /\ response.rows[j].severity = response.rows[k].severity
                  /\ response.rows[j].detected_at >= response.rows[k].detected_at

\* The VulnerabilityStatus value a status string stands for, in any letter case
ParsedStatus(status) ==
    CASE status = "open" -> "open"
      [] status = "RESOLVED" -> "resolved"
      [] OTHER -> "none"

\* C24: update_vulnerability_status with a status string outside VulnerabilityStatus
\* answers 400 and leaves the store alone; with a valid status and an id absent from
\* the store it answers 404 and leaves every stored finding unchanged; with a valid
\* status in any letter case and a present id it answers success and sets exactly
\* that finding's status.
C24_StatusUpdate ==
    [][\A id \in Ids, status \in StatusInputs :
          UpdateVulnerabilityStatus(id, status) =>
              LET present == \E i \in 1..Len(store) : store[i].id = id
              IN  /\ ParsedStatus(status) = "none"
                     => (httpCode' = 400 /\ store' = store)
                  /\ (ParsedStatus(status) # "none" /\ ~present)
                     => (httpCode' = 404 /\ store' = store)
                  /\ (ParsedStatus(status) # "none" /\ present)
                     => /\ httpCode' = 200
                        /\ Len(store') = Len(store)
                        /\ \A i \in 1..Len(store) :
                               store'[i] =
                                   IF store[i].id = id
                                   THEN [store[i] EXCEPT !.status = ParsedStatus(status)]
                                   ELSE store[i]]_vars

\* C24 witness: of two stored findings one was resolved by an update sent in upper
\* case and the other is still open.
C24_Witness ==
    /\ httpCode = 200
    /\ \E i, j \in 1..Len(store) :
           /\ store[i].status = "resolved"
           /\ store[j].status = "open"

\* What a caller of the routes can read: the responses and the stored findings. The
\* scan_id of POST /scan is returned and kept nowhere, and no route reads a task.
CallerReadable == <<httpCode, store>>

\* C26: every scan started through POST /scan has a task handle whose status can be
\* queried and moves from pending to running to completed or failed; the outcome of
\* the background scan, including a failure while constructing the scanner or storing
\* the findings, is recorded on the handle and never silently discarded: the step
\* that ends the task with an exception changes what a caller can read.
C26_OutcomeRecorded ==
    [][(taskError = "none" /\ taskError' # "none") => CallerReadable' # CallerReadable]_vars

\* C29: create_client and create_resource return a client or resource only if an
\* earlier authenticate_with_keys or assume_role call completed successfully, and
\* raise ValueError in every other state, a failed authentication attempt included;
\* get_account_id is non-empty only after a successful authenticate_with_keys.
C29_ClientOnlyAfterAuthentication ==
    /\ awsCall.op \in {"create_client", "create_resource"}
       => IF awsAuth.authenticated
          THEN awsCall.outcome \in {"client", "resource"}
          ELSE awsCall.outcome = "ValueError"
    /\ (awsCall.op = "get_account_id" /\ awsCall.outcome # "None")
       => awsAuth.keysVerified

\* C30: get_credential, create_client and list_subscriptions succeed only if an
\* earlier authenticate_with_service_principal or
\* authenticate_with_default_credentials call completed successfully and raise
\* ValueError otherwise, an attempt that raised included; list_resource_groups
\* succeeds only if moreover a subscription id was set.
C30_CredentialOnlyAfterAuthentication ==
    /\ (azureCall.op \in {"get_credential", "create_client", "list_subscriptions"}
        /\ ~azureAuth.authenticated)
       => azureCall.outcome = "ValueError"
    /\ (azureCall.op = "list_resource_groups"
        /\ (~azureAuth.authenticated \/ azureAuth.subscription_id \in {"None", ""}))
       => azureCall.outcome = "ValueError"

C28_StatusProviderRegion ==
    \A i \in 1..Len(runs) :
        \A k \in 1..Len(runs[i].findings) :
            LET finding == runs[i].findings[k].fields
            IN  /\ finding.status = "open"
                /\ finding.cloud_provider = runs[i].provider
                /\ ("policy" \in DOMAIN finding \/ "assignment" \in DOMAIN finding)
                   => finding.region = "global"

\* C28 witness: an AWS run returned an IAM policy finding and an Azure run a
\* role-assignment finding.
C28_Witness ==
    \E i, j \in 1..Len(runs) :
        /\ runs[i].provider = "aws" /\ runs[j].provider = "azure"
        /\ \E k \in 1..Len(runs[i].findings) : "policy" \in DOMAIN runs[i].findings[k].fields
        /\ \E k \in 1..Len(runs[j].findings) :
               "assignment" \in DOMAIN runs[j].findings[k].fields

====
